---- MODULE Spec2Model ----
(***************************************************************************)
(* Model of the string formatting and encoded-string engine of             *)
(* src/src/strings.cpp: the parameter store, the plural rules, the number  *)
(* formatter, the template interpreter (FormatString) and the encoded      *)
(* string codec (GetEncodedStringWithArgs, EncodedString::ReplaceParam,    *)
(* DecodeEncodedString).                                                   *)
(*                                                                         *)
(* Strings (templates, encoded strings, output) are sequences of integers: *)
(* one element per code point (ReadUtf8/PutUtf8) or per operand byte       *)
(* (ReadUint8/PutUint8).                                                   *)
(***************************************************************************)
EXTENDS Integers, Sequences, FiniteSets, TLC

VARIABLES m, inp, res, phase

vars == <<m, inp, res, phase>>

----------------------------------------------------------------------------
(* Bounds of the model *)

MaxParams == 2

MaxCount == 125

MaxN == 1100

MaxReads == 5

----------------------------------------------------------------------------
(* Code points.  The control codes lie in SCC_CONTROL_START .. SCC_CONTROL_END; *)
(* the interpreter depends on their being distinct, on that range and on  *)
(* SCC_STRING1 .. SCC_STRING7 being consecutive.                          *)

SCC_RECORD_SEPARATOR == 30

SCC_CONTROL_START == 57344

SCC_CONTROL_END == 57855

SCC_ENCODED == 57344

SCC_ENCODED_INTERNAL == 57345

SCC_ENCODED_NUMERIC == 57346

SCC_ENCODED_STRING == 57347

SCC_NEWGRF_STRINL == 57354

SCC_NEWGRF_PRINT_WORD_STRING_ID == 57355

SCC_GENDER_LIST == 57356

SCC_GENDER_INDEX == 57357

SCC_PLURAL_LIST == 57358

SCC_ARG_INDEX == 57359

SCC_SET_CASE == 57360

SCC_SWITCH_CASE == 57361

SCC_RAW_STRING_POINTER == 57362

SCC_STRING == 57363

SCC_STRING1 == 57364

SCC_STRING7 == 57370

SCC_COMMA == 57374

SCC_DECIMAL == 57375

SCC_NUM == 57376

SCC_BLACK == 57384

SCC_COMPANY_NAME == 57385

SCC_DEPOT_NAME == 57386

SCC_ENGINE_NAME == 57387

SCC_GROUP_NAME == 57388

SCC_INDUSTRY_NAME == 57389

SCC_PRESIDENT_NAME == 57390

SCC_STATION_NAME == 57391

SCC_TOWN_NAME == 57392

SCC_WAYPOINT_NAME == 57393

SCC_VEHICLE_NAME == 57394

SCC_SIGN_NAME == 57395

(* '?' : the default of StringConsumer::ReadUtf8 when no data is left *)
QuestionMark == 63

Minus == 45

Zero == 48

----------------------------------------------------------------------------
(* Diagnostic texts appended by the code *)

InvalidParameterText == <<40, 105, 110, 118, 97, 108, 105, 100, 32, 112, 97, 114, 97, 109, 101, 116, 101, 114, 41>>

InvalidEncodedText == <<40, 105, 110, 118, 97, 108, 105, 100, 32, 83, 67, 67, 95, 69, 78, 67, 79, 68, 69, 68, 41>>

InvalidStringIDText == <<40, 105, 110, 118, 97, 108, 105, 100, 32, 83, 116, 114, 105, 110, 103, 73, 68, 41>>

InvalidSubStringIDText == <<40, 105, 110, 118, 97, 108, 105, 100, 32, 115, 117, 98, 45, 83, 116, 114, 105, 110, 103, 73, 68, 41>>

InvalidGenderText == <<40, 105, 110, 118, 97, 108, 105, 100, 32, 71, 69, 78, 68, 69, 82, 32, 112, 97, 114, 97, 109, 101, 116, 101, 114, 41>>

InvalidPluralText == <<40, 105, 110, 118, 97, 108, 105, 100, 32, 80, 76, 85, 82, 65, 76, 32, 112, 97, 114, 97, 109, 101, 116, 101, 114, 41>>

ConsumedTooManyText == <<40, 99, 111, 110, 115, 117, 109, 101, 100, 32, 116, 111, 111, 32, 109, 97, 110, 121, 32, 112, 97, 114, 97, 109, 101, 116, 101, 114, 115, 41>>

UndefinedStringText == <<40, 117, 110, 100, 101, 102, 105, 110, 101, 100, 32, 115, 116, 114, 105, 110, 103, 41>>

UnexpectedNulText == <<40, 117, 110, 101, 120, 112, 101, 99, 116, 101, 100, 32, 78, 85, 76, 41>>

----------------------------------------------------------------------------
(* Sequence helpers and the StringConsumer / StringBuilder primitives *)

Min(a, b) == IF a < b THEN a ELSE b

(* F of the value of e, e being evaluated once *)
With(e, F(_)) == CHOOSE y \in {F(x) : x \in {e}} : TRUE

Take(s, n) == SubSeq(s, 1, Min(n, Len(s)))

Drop(s, n) == SubSeq(s, Min(n, Len(s)) + 1, Len(s))

(* StringConsumer::ReadUtf8(def = '?') and ReadUint8(def = 0) *)
ReadUtf8(s) == IF s = <<>> THEN QuestionMark ELSE Head(s)

ReadUint8(s) == IF s = <<>> THEN 0 ELSE Head(s)

(* StringConsumer::ReadUint16LE: two operand bytes, low byte first *)
ReadUint16LE(s) == ReadUint8(s) + 256 * ReadUint8(Drop(s, 1))

(* Index of the first occurrence of c in s, 0 when there is none *)
RECURSIVE FindFrom(_, _, _)
FindFrom(s, c, i) ==
    IF i > Len(s) THEN 0
    ELSE IF s[i] = c THEN i
    ELSE FindFrom(s, c, i + 1)

(* StringConsumer::ReadUntilUtf8(c, mode): the bytes before the first c;  *)
(* KEEP_SEPARATOR leaves c unread, SKIP_ONE_SEPARATOR consumes it.        *)
ReadUntilUtf8(s, c, skipOne) ==
    LET i == FindFrom(s, c, 1) IN
    IF i = 0 THEN [chunk |-> s, rest |-> <<>>]
    ELSE [chunk |-> SubSeq(s, 1, i - 1),
          rest  |-> SubSeq(s, IF skipOne THEN i + 1 ELSE i, Len(s))]

IsHexDigit(c) == (48 <= c /\ c <= 57) \/ (97 <= c /\ c <= 102) \/ (65 <= c /\ c <= 70)

HexValue(c) == IF c <= 57 THEN c - 48 ELSE IF c >= 97 THEN c - 87 ELSE c - 55

HexDigit(d) == IF d < 10 THEN 48 + d ELSE 87 + d

(* Length of the longest prefix of s made of hexadecimal digits *)
RECURSIVE HexPrefixLen(_)
HexPrefixLen(s) ==
    IF s = <<>> \/ ~IsHexDigit(Head(s)) THEN 0 ELSE 1 + HexPrefixLen(Tail(s))

RECURSIVE HexNumber(_, _)
HexNumber(s, acc) ==
    IF s = <<>> THEN acc ELSE HexNumber(Tail(s), 16 * acc + HexValue(Head(s)))

(* StringConsumer::TryReadIntegerBase(16) / ReadIntegerBase(16, def = 0): *)
(* parses the longest hexadecimal prefix and advances past it; without    *)
(* any digit the value is absent (Try...) or 0 (Read...).                 *)
ReadIntegerBase16(s) ==
    LET n == HexPrefixLen(s) IN
    [valid |-> n > 0, value |-> HexNumber(Take(s, n), 0), rest |-> Drop(s, n)]

(* StringBuilder::PutIntegerBase(value, 16) *)
RECURSIVE PutIntegerBase16(_)
PutIntegerBase16(n) ==
    IF n < 16 THEN <<HexDigit(n)>>
    ELSE PutIntegerBase16(n \div 16) \o <<HexDigit(n % 16)>>

(* fmt "{}" of a non-negative integer *)
RECURSIVE DecimalDigits(_)
DecimalDigits(n) ==
    IF n < 10 THEN <<Zero + n>>
    ELSE DecimalDigits(n \div 10) \o <<Zero + (n % 10)>>

Abs(n) == IF n < 0 THEN -n ELSE n

----------------------------------------------------------------------------
(* Parameter slots: StringParameter {data, type} *)

NumParam(n) == [k |-> "num", n |-> n, s |-> <<>>]

StrParam(s) == [k |-> "str", n |-> 0, s |-> s]

EmptyParam == [k |-> "none", n |-> 0, s |-> <<>>]

Slot(d) == [data |-> d, type |-> 0]

RECURSIVE MakeSlots(_)
MakeSlots(ps) == IF ps = <<>> THEN <<>> ELSE <<Slot(Head(ps))>> \o MakeSlots(Tail(ps))

RECURSIVE SlotData(_)
SlotData(v) == IF v = <<>> THEN <<>> ELSE <<Head(v).data>> \o SlotData(Tail(v))

----------------------------------------------------------------------------
(* Parameter Store: StringParameters {parameters (a span into a vector of  *)
(* slots), offset, next_type}.  A span is (vec, base, size): the slots    *)
(* base+1 .. base+size of vector vec; views made from one another share   *)
(* the slots, and with them the claimed-type tags.                        *)

NewParameters(vec, base, size) ==
    [vec |-> vec, base |-> base, size |-> size, offset |-> 0, next_type |-> 0]

(* The outcome of a read: ok = FALSE is a thrown std::out_of_range *)
ReadResult(ok, sp, slots, slot) == [ok |-> ok, sp |-> sp, slots |-> slots, slot |-> slot]

(* A read that never fails the type check and overwrites the claimed type *)
GetNextParameterReference_NoTypeCheck(sp, slots) ==
    IF sp.offset >= sp.size
    THEN ReadResult(FALSE, sp, slots, Slot(EmptyParam))
    ELSE LET i == sp.base + sp.offset + 1
             sp1 == [sp EXCEPT !.offset = @ + 1, !.next_type = 0]
             slots1 == [slots EXCEPT ![i].type = sp.next_type]
         IN ReadResult(TRUE, sp1, slots1, slots1[i])

(* A read that clears the value of the slot it returns *)
GetNextParameterReference_Clobber(sp, slots) ==
    IF sp.offset >= sp.size
    THEN ReadResult(FALSE, sp, slots, Slot(EmptyParam))
    ELSE LET i == sp.base + sp.offset + 1
             param == slots[i]
             sp1 == [sp EXCEPT !.offset = @ + 1, !.next_type = 0]
         IN IF param.type # 0 /\ param.type # sp.next_type
            THEN ReadResult(FALSE, sp1, slots, param)
            ELSE LET slots1 == [slots EXCEPT ![i] = [data |-> EmptyParam, type |-> sp.next_type]]
                 IN ReadResult(TRUE, sp1, slots1, [param EXCEPT !.type = sp.next_type])

(* StringParameters::GetNextParameterReference *)
GetNextParameterReference(sp, slots) ==
    IF sp.offset >= sp.size
    THEN ReadResult(FALSE, sp, slots, Slot(EmptyParam))
    ELSE LET i == sp.base + sp.offset + 1
             param == slots[i]
             sp1 == [sp EXCEPT !.offset = @ + 1, !.next_type = 0]
         IN IF param.type # 0 /\ param.type # sp.next_type
            THEN ReadResult(FALSE, sp1, slots, param)
            ELSE LET slots1 == [slots EXCEPT ![i].type = sp.next_type]
                 IN ReadResult(TRUE, sp1, slots1, slots1[i])

(* StringParameters::GetNextParameter<T>: the integer of a numeric slot;  *)
(* an empty or text slot throws after the reference was taken.            *)
GetNextParameter(sp, slots) ==
    LET r == GetNextParameterReference(sp, slots) IN
    IF r.ok /\ r.slot.data.k # "num" THEN [r EXCEPT !.ok = FALSE] ELSE r

(* StringParameters::GetNextParameterString *)
GetNextParameterString(sp, slots) ==
    LET r == GetNextParameterReference(sp, slots) IN
    IF r.ok /\ r.slot.data.k # "str" THEN [r EXCEPT !.ok = FALSE] ELSE r

SetTypeOfNextParameter(sp, type) == [sp EXCEPT !.next_type = type]

SetOffset(sp, offset) == [sp EXCEPT !.offset = offset]

(* A cursor that stays where the id was read *)
AdvanceOffset_None(sp, advance) == sp

AdvanceOffset(sp, advance) == [sp EXCEPT !.offset = @ + advance]

GetDataLeft(sp) == sp.size - sp.offset

GetNumParameters(sp) == sp.size

GetTypeAtOffset(sp, slots, offset) == slots[sp.base + offset + 1].type

GetParam(sp, slots, offset) == slots[sp.base + offset + 1].data

(* StringParameters(parent, size): a window of size slots at the cursor *)
SubParameters(parent, size) == NewParameters(parent.vec, parent.base + parent.offset, size)

(* StringParameters::GetRemainingParameters(offset) *)
GetRemainingParameters(sp, offset) == NewParameters(sp.vec, sp.base + offset, sp.size - offset)

----------------------------------------------------------------------------
(* Encoded-string codec, encoding side *)

(* GetEncodedStringWithArgs::visitor: one parameter record's payload *)
EncodeParam(d) ==
    CASE d.k = "num" -> <<SCC_ENCODED_NUMERIC>> \o PutIntegerBase16(d.n)
      [] d.k = "str" -> <<SCC_ENCODED_STRING>> \o d.s
      [] OTHER -> <<>>

RECURSIVE EncodeParams(_)
EncodeParams(params) ==
    IF params = <<>> THEN <<>>
    ELSE <<SCC_RECORD_SEPARATOR>> \o EncodeParam(Head(params)) \o EncodeParams(Tail(params))

(* A check that lets every text parameter pass *)
EncodeAccepts_Any(params) == TRUE

(* The WITH_ASSERT check of the visitor: a text parameter does not start  *)
(* with an encoded-string marker or the record separator.                 *)
EncodeAccepts(params) ==
    \A i \in DOMAIN params :
        params[i].k = "str" /\ params[i].s # <<>> =>
            params[i].s[1] \notin {SCC_ENCODED, SCC_ENCODED_INTERNAL, SCC_RECORD_SEPARATOR}

GetEncodedStringWithArgs(str, params) ==
    <<SCC_ENCODED_INTERNAL>> \o PutIntegerBase16(str) \o EncodeParams(params)

(* An unknown record that leaves no parameter behind *)
UnknownParameter_Dropped(params) == params

(* default: "Unknown parameter, make it blank." (lines 192-195, 1055-1058) *)
UnknownParameter(params) == Append(params, EmptyParam)

(* The outcome of EncodedString::ReplaceParam: abort = a failed assert() *)
ReplaceResult(abort, string) == [abort |-> abort, string |-> string]

ParseResult(abort, params) == [abort |-> abort, params |-> params]

(* The record loop of EncodedString::ReplaceParam (lines 168-197) *)
RECURSIVE ReplaceParamRecords(_, _, _)
ReplaceParamRecords(s, params, asserts) ==
    IF s = <<>> THEN ParseResult(FALSE, params)
    ELSE LET r == ReadUntilUtf8(s, SCC_RECORD_SEPARATOR, TRUE)
             record == r.chunk
         IN IF record = <<>>
            THEN ReplaceParamRecords(r.rest, Append(params, EmptyParam), asserts)
            ELSE LET parameter_type == ReadUtf8(record)
                     body == Tail(record)
                 IN CASE parameter_type = SCC_ENCODED_NUMERIC ->
                           LET v == ReadIntegerBase16(body) IN
                           IF asserts /\ v.rest # <<>>
                           THEN ParseResult(TRUE, params)
                           ELSE ReplaceParamRecords(r.rest, Append(params, NumParam(v.value)), asserts)
                      [] parameter_type = SCC_ENCODED_STRING ->
                           ReplaceParamRecords(r.rest, Append(params, StrParam(body)), asserts)
                      [] OTHER ->
                           ReplaceParamRecords(r.rest, UnknownParameter(params), asserts)

(* EncodedString::ReplaceParam(param, data) on the encoded text string *)
ReplaceParam(string, param, data, asserts) ==
    IF string = <<>> THEN ReplaceResult(FALSE, <<>>)
    ELSE IF Head(string) # SCC_ENCODED_INTERNAL THEN ReplaceResult(FALSE, <<>>)
    ELSE LET r == ReadIntegerBase16(Tail(string)) IN
         IF ~r.valid THEN ReplaceResult(FALSE, <<>>)
         ELSE IF r.rest # <<>> /\ Head(r.rest) # SCC_RECORD_SEPARATOR THEN ReplaceResult(FALSE, <<>>)
         ELSE LET p == ReplaceParamRecords(Drop(r.rest, 1), <<>>, asserts) IN
              IF p.abort THEN ReplaceResult(TRUE, <<>>)
              ELSE IF param >= Len(p.params) THEN ReplaceResult(FALSE, <<>>)
              ELSE IF asserts /\ ~EncodeAccepts([p.params EXCEPT ![param + 1] = data])
              THEN ReplaceResult(TRUE, <<>>)
              ELSE ReplaceResult(FALSE,
                       GetEncodedStringWithArgs(r.value, [p.params EXCEPT ![param + 1] = data]))

----------------------------------------------------------------------------
(* Plural rules *)

(* NOT_REACHED(): the value the model gives a call that does not return *)
NotReached == -1

(* The plural rules applied to the count itself instead of its absolute value *)
PluralIndex_NoAbs(count, plural_form) ==
    LET n == count IN
    CASE plural_form = 0 -> IF n # 1 THEN 1 ELSE 0
      [] plural_form = 1 -> 0
      [] plural_form = 2 -> IF n > 1 THEN 1 ELSE 0
      [] plural_form = 3 -> IF n % 10 = 1 /\ n % 100 # 11 THEN 0 ELSE IF n # 0 THEN 1 ELSE 2
      [] plural_form = 4 -> IF n = 1 THEN 0 ELSE IF n = 2 THEN 1 ELSE IF n < 7 THEN 2 ELSE IF n < 11 THEN 3 ELSE 4
      [] plural_form = 5 -> IF n % 10 = 1 /\ n % 100 # 11 THEN 0
                            ELSE IF n % 10 >= 2 /\ (n % 100 < 10 \/ n % 100 >= 20) THEN 1 ELSE 2
      [] plural_form = 6 -> IF n % 10 = 1 /\ n % 100 # 11 THEN 0
                            ELSE IF n % 10 >= 2 /\ n % 10 <= 4 /\ (n % 100 < 10 \/ n % 100 >= 20) THEN 1 ELSE 2
      [] plural_form = 7 -> IF n = 1 THEN 0
                            ELSE IF n % 10 >= 2 /\ n % 10 <= 4 /\ (n % 100 < 10 \/ n % 100 >= 20) THEN 1 ELSE 2
      [] plural_form = 8 -> IF n % 100 = 1 THEN 0 ELSE IF n % 100 = 2 THEN 1
                            ELSE IF n % 100 = 3 \/ n % 100 = 4 THEN 2 ELSE 3
      [] plural_form = 9 -> IF n % 10 = 1 /\ n % 100 # 11 THEN 0 ELSE 1
      [] plural_form = 10 -> IF n = 1 THEN 0 ELSE IF n >= 2 /\ n <= 4 THEN 1 ELSE 2
      [] plural_form = 11 -> IF n % 10 \in {0, 1, 3, 6, 7, 8} THEN 0
                             ELSE IF n % 10 \in {2, 4, 5, 9} THEN 1 ELSE NotReached
      [] plural_form = 12 -> IF n = 1 THEN 0
                             ELSE IF n = 0 \/ (n % 100 > 1 /\ n % 100 < 11) THEN 1
                             ELSE IF n % 100 > 10 /\ n % 100 < 20 THEN 2 ELSE 3
      [] plural_form = 13 -> IF n = 1 \/ n = 11 THEN 0
                             ELSE IF n = 2 \/ n = 12 THEN 1
                             ELSE IF (n > 2 /\ n < 11) \/ (n > 12 /\ n < 20) THEN 2 ELSE 3
      [] plural_form = 14 -> IF n = 1 THEN 0
                             ELSE IF n = 0 \/ (n % 100 > 0 /\ n % 100 < 20) THEN 1 ELSE 2
      [] OTHER -> NotReached

(* DeterminePluralForm(count, plural_form) *)
DeterminePluralForm(count, plural_form) ==
    LET n == Abs(count) IN
    CASE plural_form = 0 -> IF n # 1 THEN 1 ELSE 0
      [] plural_form = 1 -> 0
      [] plural_form = 2 -> IF n > 1 THEN 1 ELSE 0
      [] plural_form = 3 -> IF n % 10 = 1 /\ n % 100 # 11 THEN 0 ELSE IF n # 0 THEN 1 ELSE 2
      [] plural_form = 4 -> IF n = 1 THEN 0 ELSE IF n = 2 THEN 1 ELSE IF n < 7 THEN 2 ELSE IF n < 11 THEN 3 ELSE 4
      [] plural_form = 5 -> IF n % 10 = 1 /\ n % 100 # 11 THEN 0
                            ELSE IF n % 10 >= 2 /\ (n % 100 < 10 \/ n % 100 >= 20) THEN 1 ELSE 2
      [] plural_form = 6 -> IF n % 10 = 1 /\ n % 100 # 11 THEN 0
                            ELSE IF n % 10 >= 2 /\ n % 10 <= 4 /\ (n % 100 < 10 \/ n % 100 >= 20) THEN 1 ELSE 2
      [] plural_form = 7 -> IF n = 1 THEN 0
                            ELSE IF n % 10 >= 2 /\ n % 10 <= 4 /\ (n % 100 < 10 \/ n % 100 >= 20) THEN 1 ELSE 2
      [] plural_form = 8 -> IF n % 100 = 1 THEN 0 ELSE IF n % 100 = 2 THEN 1
                            ELSE IF n % 100 = 3 \/ n % 100 = 4 THEN 2 ELSE 3
      [] plural_form = 9 -> IF n % 10 = 1 /\ n % 100 # 11 THEN 0 ELSE 1
      [] plural_form = 10 -> IF n = 1 THEN 0 ELSE IF n >= 2 /\ n <= 4 THEN 1 ELSE 2
      [] plural_form = 11 -> IF n % 10 \in {0, 1, 3, 6, 7, 8} THEN 0
                             ELSE IF n % 10 \in {2, 4, 5, 9} THEN 1 ELSE NotReached
      [] plural_form = 12 -> IF n = 1 THEN 0
                             ELSE IF n = 0 \/ (n % 100 > 1 /\ n % 100 < 11) THEN 1
                             ELSE IF n % 100 > 10 /\ n % 100 < 20 THEN 2 ELSE 3
      [] plural_form = 13 -> IF n = 1 \/ n = 11 THEN 0
                             ELSE IF n = 2 \/ n = 12 THEN 1
                             ELSE IF (n > 2 /\ n < 11) \/ (n > 12 /\ n < 20) THEN 2 ELSE 3
      [] plural_form = 14 -> IF n = 1 THEN 0
                             ELSE IF n = 0 \/ (n % 100 > 0 /\ n % 100 < 20) THEN 1 ELSE 2
      [] OTHER -> NotReached

(* StringConsumer::Skip(len) / Read(len) over the <NUM> {lengths} {strings} *)
(* layout of a choice list.                                               *)
RECURSIVE SumLens(_, _, _)
SumLens(s, from, to) ==
    IF from > to THEN 0 ELSE ReadUint8(Drop(s, from - 1)) + SumLens(s, from + 1, to)

(* SkipStringChoice(consumer): the consumer after the list *)
SkipStringChoice(s) ==
    LET n == ReadUint8(s)
        lens == Drop(s, 1)
    IN Drop(Drop(lens, n), SumLens(lens, 1, n))

(* A choice that stops behind the text it took *)
ParseStringChoice_NoPost(s, form) ==
    LET n == ReadUint8(s)
        lens == Drop(s, 1)
        form_pre == SumLens(lens, 1, Min(form, n))
        form_len == IF form < n THEN ReadUint8(Drop(lens, form)) ELSE 0
        texts == Drop(lens, n)
    IN [text |-> Take(Drop(texts, form_pre), form_len),
        rest |-> Drop(Drop(texts, form_pre), form_len)]

(* ParseStringChoice(consumer, form, builder): the text appended and the  *)
(* consumer after the list                                                *)
ParseStringChoice(s, form) ==
    LET n == ReadUint8(s)
        lens == Drop(s, 1)
        form_pre == SumLens(lens, 1, Min(form, n))
        form_len == IF form < n THEN ReadUint8(Drop(lens, form)) ELSE 0
        form_post == SumLens(lens, form + 2, n)
        texts == Drop(lens, n)
    IN [text |-> Take(Drop(texts, form_pre), form_len),
        rest |-> Drop(Drop(Drop(texts, form_pre), form_len), form_post)]

----------------------------------------------------------------------------
(* Number formatting *)

MaxDigits == 20

RECURSIVE PowerOfTen(_)
PowerOfTen(e) == IF e = 0 THEN 1 ELSE 10 * PowerOfTen(e - 1)

RECURSIVE BitOr(_, _)
BitOr(a, b) ==
    IF a = 0 THEN b
    ELSE IF b = 0 THEN a
    ELSE 2 * BitOr(a \div 2, b \div 2) + (IF a % 2 = 1 \/ b % 2 = 1 THEN 1 ELSE 0)

(* One round of the digit loop of FormatNumber (lines 486-498) on the     *)
(* state of the loop: num, tot, the round i and the text written so far.  *)
(* The divisor of round i is 10^(max_digits - 1 - i); the numbers of the  *)
(* model are below 10^10, so num >= divisor can only hold for the         *)
(* exponents 0..9.                                                        *)
FormatNumberRound(st, separator) ==
    LET e == MaxDigits - 1 - st.i
        thousands_offset == (MaxDigits - 1) % 3
        ge == e <= 9 /\ st.num >= PowerOfTen(e)
        quot == IF ge THEN st.num \div PowerOfTen(e) ELSE 0
        tot1 == BitOr(st.tot, quot)
    IN [num |-> IF ge THEN st.num % PowerOfTen(e) ELSE st.num,
        tot |-> tot1,
        i |-> st.i + 1,
        out |-> st.out \o
                (IF tot1 # 0 \/ st.i = MaxDigits - 1
                 THEN <<Zero + quot>> \o
                      (IF st.i % 3 = thousands_offset /\ st.i < MaxDigits - 1
                       THEN separator ELSE <<>>)
                 ELSE <<>>)]

(* At most n rounds of the digit loop *)
RECURSIVE FormatNumberRounds(_, _, _)
FormatNumberRounds(st, n, separator) ==
    IF n = 0 \/ st.i >= MaxDigits THEN st
    ELSE With(FormatNumberRound(st, separator),
              LAMBDA s1 : FormatNumberRounds(s1, n - 1, separator))

(* The digit loop to its end, five rounds at a time *)
RECURSIVE FormatNumberLoopFrom(_, _)
FormatNumberLoopFrom(st, separator) ==
    IF st.i >= MaxDigits THEN st.out
    ELSE With(FormatNumberRounds(st, 5, separator),
              LAMBDA s1 : FormatNumberLoopFrom(s1, separator))

(* The digit loop of FormatNumber from round i on *)
FormatNumberLoop(num, tot, i, separator) ==
    With([num |-> num, tot |-> tot, i |-> i, out |-> <<>>],
         LAMBDA st : FormatNumberLoopFrom(st, separator))

(* A FormatNumber that forgets the sign *)
FormatNumber_NoSign(number, separator) == FormatNumberLoop(Abs(number), 0, 0, separator)

(* FormatNumber(builder, number, separator) *)
FormatNumber(number, separator) ==
    (IF number < 0 THEN <<Minus>> ELSE <<>>) \o FormatNumberLoop(Abs(number), 0, 0, separator)

(* _settings_game.locale.digit_group_separator / the language pack's *)
GroupSeparator == <<44>>

DecimalSeparator == <<46>>

FormatCommaNumber(number) == FormatNumber(number, GroupSeparator)

(* fmt "{}" of a signed integer *)
FormatNoCommaNumber(number) ==
    (IF number < 0 THEN <<Minus>> ELSE <<>>) \o DecimalDigits(Abs(number))

RECURSIVE Zeros(_)
Zeros(n) == IF n <= 0 THEN <<>> ELSE <<Zero>> \o Zeros(n - 1)

(* fmt "{:0{}d}": sign first, then zeros up to the width, then the digits *)
FormatZerofillNumber(number, count) ==
    LET digits == DecimalDigits(Abs(number))
        sign == IF number < 0 THEN <<Minus>> ELSE <<>>
    IN sign \o Zeros(count - Len(sign) - Len(digits)) \o digits

(* C++ integer division and remainder truncate towards zero *)
CDiv(a, b) == IF a < 0 THEN -((-a) \div b) ELSE a \div b

CMod(a, b) == IF a < 0 THEN -((-a) % b) ELSE a % b

----------------------------------------------------------------------------
(* String ids and the language pack *)

TAB_SIZE == 2048

TAB_SIZE_GAMESCRIPT == 65536

TEXT_TAB_OLD_CUSTOM == 15

TEXT_TAB_OLD_NEWGRF == 26

TEXT_TAB_GAMESCRIPT_START == 32

TEXT_TAB_NEWGRF_START == 64

(* GetStringTab(str) / GetStringIndex(str) / MakeStringID(tab, index) *)
GetStringTab(str) ==
    LET result == str \div TAB_SIZE IN
    IF result >= TEXT_TAB_NEWGRF_START THEN TEXT_TAB_NEWGRF_START
    ELSE IF result >= TEXT_TAB_GAMESCRIPT_START THEN TEXT_TAB_GAMESCRIPT_START
    ELSE result

GetStringIndex(str) == str - GetStringTab(str) * TAB_SIZE

MakeStringID(tab, index) == tab * TAB_SIZE + index

STR_NULL == 0

STR_UNDEFINED == 1

STR_JUST_RAW_STRING == 2

STR_COMMA == 3

STR_CASES == 4

STR_STRING1 == 5

STR_GENDER == 6

STR_NOUN_F == 7

STR_NOUN == 8

STR_PLURAL == 9

STR_ARGS == 10

STR_DECIMAL == 11

STR_SET_CASE == 12

STR_INLINE == 13

STR_UNKNOWN_STATION == 14

STR_FORMAT_DEPOT_NAME_AIRCRAFT == 15

(* The first of eleven strings "<{X}>", one for each entity-name code X *)
STR_ENTITY == 16

EntityCodes ==
    <<SCC_COMPANY_NAME, SCC_DEPOT_NAME, SCC_ENGINE_NAME, SCC_GROUP_NAME, SCC_INDUSTRY_NAME,
      SCC_PRESIDENT_NAME, SCC_STATION_NAME, SCC_TOWN_NAME, SCC_WAYPOINT_NAME, SCC_VEHICLE_NAME,
      SCC_SIGN_NAME>>

(* "{SET_CASE 1}{STRINL STR_CASES2}{PRINT_WORD_STRING_ID}{SET_CASE 2}     *)
(* {STRINL STR_CASES2}", behind the entity strings                        *)
STR_CASE_INLINE == 27

(* "{NUM}" and a case switch with the records (2, "C") and (1, "DE") and *)
(* the default "B", then "!"                                              *)
STR_CASES2 == 28

(* "{NUM}{STRINL STR_RELATIVE}": the inline reference is read with the   *)
(* cursor at 1                                                            *)
STR_NUM_INLINE == 29

(* A plural list and a gender list on the slot 0 of the frame, then       *)
(* "{ARG_INDEX 0}{NUM}"                                                   *)
STR_RELATIVE == 30

UnknownStationText == <<117, 110, 107, 110, 111, 119, 110>>

(* The strings of the loaded language pack (_langpack.strings), in id order, *)
(* all in string tab 0.                                                     *)
LangStrings ==
    << <<>>,
       UndefinedStringText,
       <<SCC_RAW_STRING_POINTER>>,
       <<110, 61, SCC_COMMA, 33>>,
       <<SCC_SWITCH_CASE, 1, 1, 1, 0, 65, 1, 0, 66, SCC_NUM>>,
       <<SCC_STRING1, 58, SCC_COMMA>>,
       <<SCC_GENDER_LIST, 0, 2, 1, 1, 109, 102, SCC_STRING>>,
       <<SCC_GENDER_INDEX, 1, 88>>,
       <<89, SCC_NUM>>,
       <<SCC_NUM, SCC_PLURAL_LIST, 0, 0, 2, 0, 1, 115>>,
       <<SCC_ARG_INDEX, 5, SCC_COMMA, 122, SCC_ARG_INDEX, 0, SCC_NUM, SCC_ARG_INDEX, 0, SCC_COMMA, 121>>,
       <<SCC_DECIMAL, 101, SCC_BLACK>>,
       <<SCC_SET_CASE, 1, SCC_STRING, SCC_STRING>>,
       <<SCC_NEWGRF_STRINL, STR_NOUN, SCC_NEWGRF_PRINT_WORD_STRING_ID>>,
       UnknownStationText,
       <<SCC_STATION_NAME, 72>> >>
    \o [i \in 1 .. Len(EntityCodes) |-> <<60, EntityCodes[i], 62>>]
    \o << <<SCC_SET_CASE, 1, SCC_NEWGRF_STRINL, STR_CASES2, SCC_NEWGRF_PRINT_WORD_STRING_ID,
            SCC_SET_CASE, 2, SCC_NEWGRF_STRINL, STR_CASES2>>,
          <<SCC_NUM, SCC_SWITCH_CASE, 2, 2, 1, 0, 67, 1, 2, 0, 68, 69, 1, 0, 66, 33>>,
          <<SCC_NUM, SCC_NEWGRF_STRINL, STR_RELATIVE>>,
          <<SCC_PLURAL_LIST, 0, 0, 2, 1, 1, 97, 98, SCC_GENDER_LIST, 0, 2, 1, 1, 109, 102,
            SCC_ARG_INDEX, 0, SCC_NUM>> >>

(* _langpack.langtab_num[tab] and _langpack.langtab_start[tab] *)
LangTabNum(tab) == IF tab = 0 THEN Len(LangStrings) ELSE 0

LangTabStart(tab) == IF tab = 0 THEN 0 ELSE Len(LangStrings)

(* The game script's strings (GetGameStringPtr) and the NewGRF strings    *)
(* (GetGRFStringPtr), external collaborators.                             *)
GameStrings == << <<103, SCC_NUM>>, <<104, SCC_STRING>> >>

GetGameStringPtr(index) ==
    IF index < Len(GameStrings) THEN GameStrings[index + 1] ELSE UndefinedStringText

GetGRFStringPtr(index) == UndefinedStringText

(* GetStringPtr(string); the TEXT_TAB_OLD_NEWGRF branch is NOT_REACHED() *)
GetStringPtr(string) ==
    LET tab == GetStringTab(string) IN
    CASE tab = TEXT_TAB_GAMESCRIPT_START -> GetGameStringPtr(GetStringIndex(string))
      [] tab = TEXT_TAB_NEWGRF_START -> GetGRFStringPtr(GetStringIndex(string))
      [] OTHER ->
           LET offset == LangTabStart(tab) + GetStringIndex(string) IN
           IF offset < Len(LangStrings) THEN LangStrings[offset + 1] ELSE UndefinedStringText

----------------------------------------------------------------------------
(* The interpreter as a machine.                                           *)
(*   vecs   the vectors of parameter slots alive                           *)
(*   sps    the StringParameters objects alive                             *)
(*   calls  the FormatString activations, innermost last                   *)
(*   scan   _scan_for_gender_data                                          *)
(*   ret    the text the outermost call has built, once it returned        *)
(*   err    "fatal" after FatalError / NOT_REACHED / a failed assert       *)
(*   asserts  whether the build keeps assert()                             *)

Frame(s, first_param_offset, case_index) ==
    [s |-> s, first_param_offset |-> first_param_offset, case_index |-> case_index]

NoCont == [size |-> 0, saved |-> FALSE, freeSp |-> FALSE, freeVec |-> FALSE]

Top(mm) == mm.calls[Len(mm.calls)]

TopFrame(a) == a.stack[Len(a.stack)]

TopArgs(mm) == mm.sps[Top(mm).args]

TopSlots(mm) == mm.vecs[TopArgs(mm).vec]

PutOut(mm, text) == [mm EXCEPT !.calls[Len(mm.calls)].out = @ \o text]

SetConsumer(mm, rest) ==
    [mm EXCEPT !.calls[Len(mm.calls)].stack[Len(Top(mm).stack)].s = rest]

PushFrame(mm, frame) == [mm EXCEPT !.calls[Len(mm.calls)].stack = Append(@, frame)]

SetArgs(mm, sp) == [mm EXCEPT !.sps[Top(mm).args] = sp]

SetNextCase(mm, c) == [mm EXCEPT !.calls[Len(mm.calls)].nsci = c]

Fatal(mm) == [mm EXCEPT !.err = "fatal"]

(* A catch block that swallows the failure without a diagnostic *)
Catch_Silent(mm) == mm

(* The catch block of the FormatString loop (lines 1827-1830) *)
Catch(mm) == PutOut(mm, InvalidParameterText)

(* A read of the top activation's args: integer (GetNextParameter<T>) or  *)
(* text (GetNextParameterString)                                          *)
ReadArg(mm, text) ==
    LET Read(m1) ==
            IF text THEN GetNextParameterString(TopArgs(m1), TopSlots(m1))
            ELSE GetNextParameter(TopArgs(m1), TopSlots(m1))
        Result(m1, r) ==
            [ok |-> r.ok, slot |-> r.slot,
             mm |-> [m1 EXCEPT !.sps[Top(m1).args] = r.sp, !.vecs[TopArgs(m1).vec] = r.slots]]
    IN With(mm, LAMBDA m1 : With(Read(m1), LAMBDA r : Result(m1, r)))

(* Entry of FormatString(builder, str, args, case_index, game_script) with *)
(* dry_run = false (lines 1075-1103): the call itself, and on top of it    *)
(* the dry run it starts with, whose text goes to a buffer of its own.     *)
EnterFormatString(mm, str, args, case_index, game_script, cont, cd) ==
    LET orig == mm.sps[args].offset
        real == [stack |-> <<Frame(str, orig, case_index)>>, out |-> <<>>, args |-> args,
                 nsci |-> 0, gs |-> game_script, dry |-> FALSE, ofpo |-> orig,
                 cont |-> cont, cd |-> cd, entry_scan |-> mm.scan]
        dry == [real EXCEPT !.dry = TRUE, !.cont = "dry", !.cd = NoCont]
    IN [mm EXCEPT !.calls = @ \o <<real, dry>>]

(* A lookup that takes the text of STR_UNDEFINED for every id it does    *)
(* not know                                                               *)
EnterGetStringWithArgs_Lenient(mm, string, args, case_index, game_script, cont, cd) ==
    EnterFormatString(mm, IF string = 0 THEN UndefinedStringText ELSE GetStringPtr(string), args,
                      case_index, GetStringTab(string) = TEXT_TAB_GAMESCRIPT_START, cont, cd)

(* GetStringWithArgs(builder, string, args, case_index, game_script)      *)
(* (lines 327-394); the generated town and special names are external.    *)
RECURSIVE EnterGetStringWithArgs(_, _, _, _, _, _, _)
EnterGetStringWithArgs(mm, string, args, case_index, game_script, cont, cd) ==
    IF string = 0
    THEN EnterGetStringWithArgs(mm, STR_UNDEFINED, args, 0, FALSE, cont, cd)
    ELSE LET index == GetStringIndex(string)
             tab == GetStringTab(string)
         IN CASE tab = TEXT_TAB_GAMESCRIPT_START ->
                   EnterFormatString(mm, GetGameStringPtr(index), args, case_index, TRUE, cont, cd)
              [] tab = TEXT_TAB_OLD_NEWGRF -> Fatal(mm)
              [] tab = TEXT_TAB_NEWGRF_START ->
                   EnterFormatString(mm, GetGRFStringPtr(index), args, case_index, FALSE, cont, cd)
              [] tab = TEXT_TAB_OLD_CUSTOM /\ ~game_script -> Fatal(mm)
              [] OTHER ->
                   IF index >= LangTabNum(tab)
                   THEN IF game_script
                        THEN EnterGetStringWithArgs(mm, STR_UNDEFINED, args, 0, FALSE, cont, cd)
                        ELSE Fatal(mm)
                   ELSE EnterFormatString(mm, GetStringPtr(string), args, case_index, FALSE, cont, cd)

----------------------------------------------------------------------------
(* DecodeEncodedString *)

(* The case_index argument of the final GetStringWithArgs call, written   *)
(* "true" in the source (line 1063)                                       *)
DecodeCaseIndex == 1

DecodeResult(status, args, rest) == [status |-> status, args |-> args, rest |-> rest]

(* The record loop of DecodeEncodedString (lines 1018-1060) *)
RECURSIVE DecodeRecords(_, _, _)
DecodeRecords(s, sub_args, asserts) ==
    IF s = <<>> THEN DecodeResult("ok", sub_args, <<>>)
    ELSE LET s1 == IF Head(s) = SCC_RECORD_SEPARATOR THEN Tail(s) ELSE s
             r == ReadUntilUtf8(s1, SCC_RECORD_SEPARATOR, FALSE)
             record == r.chunk
         IN IF record = <<>>
            THEN DecodeRecords(r.rest, Append(sub_args, EmptyParam), asserts)
            ELSE LET parameter_type == ReadUtf8(record)
                     v == ReadIntegerBase16(Tail(record))
                 IN CASE parameter_type = SCC_ENCODED ->
                           IF v.value >= TAB_SIZE_GAMESCRIPT
                           THEN DecodeResult("badsub", sub_args, r.rest)
                           ELSE IF asserts /\ v.rest # <<>>
                           THEN DecodeResult("abort", sub_args, r.rest)
                           ELSE DecodeRecords(r.rest,
                                    Append(sub_args, NumParam(MakeStringID(TEXT_TAB_GAMESCRIPT_START, v.value))),
                                    asserts)
                      [] parameter_type = SCC_ENCODED_NUMERIC ->
                           IF asserts /\ v.rest # <<>>
                           THEN DecodeResult("abort", sub_args, r.rest)
                           ELSE DecodeRecords(r.rest, Append(sub_args, NumParam(v.value)), asserts)
                      [] parameter_type = SCC_ENCODED_STRING ->
                           DecodeRecords(r.rest, Append(sub_args, StrParam(Tail(record))), asserts)
                      [] OTHER ->
                           DecodeRecords(r.rest, UnknownParameter(sub_args), asserts)

(* A decoder that skips the encoded string and writes nothing *)
DecodeEncodedString_Quiet(mm, rest, game_script) == SetConsumer(mm, <<>>)

(* DecodeEncodedString(consumer, game_script, builder), called with the   *)
(* consumer of the top frame just after the marker                        *)
DecodeEncodedString(mm, rest, game_script) ==
    LET id == ReadIntegerBase16(rest) IN
    IF id.rest # <<>> /\ Head(id.rest) # SCC_RECORD_SEPARATOR
    THEN PutOut(SetConsumer(mm, <<>>), InvalidEncodedText)
    ELSE IF game_script /\ id.value >= TAB_SIZE_GAMESCRIPT
    THEN PutOut(SetConsumer(mm, <<>>), InvalidStringIDText)
    ELSE LET d == DecodeRecords(id.rest, <<>>, mm.asserts)
             m2 == SetConsumer(mm, d.rest)
         IN CASE d.status = "abort" -> Fatal(m2)
              [] d.status = "badsub" -> PutOut(m2, InvalidSubStringIDText)
              [] OTHER ->
                   LET stringid == IF game_script
                                   THEN MakeStringID(TEXT_TAB_GAMESCRIPT_START, id.value)
                                   ELSE id.value
                       m3 == [m2 EXCEPT !.vecs = Append(@, MakeSlots(d.args)),
                                        !.sps = Append(@, NewParameters(Len(m2.vecs) + 1, 0, Len(d.args)))]
                   IN EnterGetStringWithArgs(m3, stringid, Len(m3.sps), DecodeCaseIndex, FALSE,
                          "append", [NoCont EXCEPT !.freeSp = TRUE, !.freeVec = TRUE])

----------------------------------------------------------------------------
(* The control codes of FormatString.  Each operator gets the machine with *)
(* the code already read from the top frame's consumer and the type of    *)
(* the next parameter set (line 1133), and the consumer's remaining text. *)

(* SCC_GENDER_LIST (lines 1156-1190) *)
GenderList(mm, rest) ==
    LET a == Top(mm)
        sp == TopArgs(mm)
        offset == TopFrame(a).first_param_offset + ReadUint8(rest)
        rest1 == Drop(rest, 1)
        m2 == SetConsumer(mm, rest1)
        c == ParseStringChoice(rest1, 0)
    IN IF offset >= GetNumParameters(sp)
       THEN PutOut(SetConsumer(PutOut(m2, InvalidGenderText), c.rest), c.text)
       ELSE IF ~a.dry /\ GetTypeAtOffset(sp, TopSlots(mm), offset) # 0
       THEN LET input == <<GetTypeAtOffset(sp, TopSlots(mm), offset)>>
                m3 == [m2 EXCEPT !.scan = TRUE,
                                 !.sps = Append(@, GetRemainingParameters(sp, offset))]
            IN EnterFormatString(m3, input, Len(m3.sps), 0, FALSE, "gender",
                   [NoCont EXCEPT !.saved = m2.scan, !.freeSp = TRUE])
       ELSE PutOut(SetConsumer(m2, c.rest), c.text)

(* SCC_GENDER_INDEX (lines 1194-1201) *)
GenderIndex(mm, rest) ==
    LET gender == ReadUint8(rest)
        m2 == SetConsumer(mm, Drop(rest, 1))
    IN IF mm.scan THEN PutOut(m2, <<SCC_GENDER_INDEX, gender>>) ELSE m2

(* SCC_PLURAL_LIST (lines 1203-1218) *)
PluralList(mm, rest) ==
    LET Choose(m1, rest2, form) ==
            IF form = NotReached THEN Fatal(SetConsumer(m1, rest2))
            ELSE With(ParseStringChoice(rest2, form),
                      LAMBDA c : PutOut(SetConsumer(m1, c.rest), c.text))
        List(m1, s) ==
            LET sp == TopArgs(m1)
                plural_form == ReadUint8(s)
                offset == TopFrame(Top(m1)).first_param_offset + ReadUint8(Drop(s, 1))
                rest2 == Drop(s, 2)
                isnum == offset < GetNumParameters(sp) /\ GetParam(sp, TopSlots(m1), offset).k = "num"
            IN IF isnum
               THEN With(DeterminePluralForm(GetParam(sp, TopSlots(m1), offset).n, plural_form),
                         LAMBDA form : Choose(m1, rest2, form))
               ELSE PutOut(SetConsumer(m1, SkipStringChoice(rest2)), InvalidPluralText)
    IN With(mm, LAMBDA m1 : With(rest, LAMBDA s : List(m1, s)))

(* A jump counted from the first slot of the parameters *)
ArgIndex_Absolute(mm, rest) ==
    SetArgs(SetConsumer(mm, Drop(rest, 1)), SetOffset(TopArgs(mm), ReadUint8(rest)))

(* SCC_ARG_INDEX (lines 1220-1223) *)
ArgIndex(mm, rest) ==
    SetArgs(SetConsumer(mm, Drop(rest, 1)),
            SetOffset(TopArgs(mm), TopFrame(Top(mm)).first_param_offset + ReadUint8(rest)))

(* A set-case code that is not read off the text *)
SetCase_Stuck(mm, rest) == SetNextCase(mm, ReadUint8(rest))

(* SCC_SET_CASE (lines 1225-1230) *)
SetCase(mm, rest) == SetNextCase(SetConsumer(mm, Drop(rest, 1)), ReadUint8(rest))

(* The record loop of SCC_SWITCH_CASE (lines 1237-1245) *)
RECURSIVE SwitchCaseRecords(_, _, _, _)
SwitchCaseRecords(s, num, case_index, found) ==
    IF num <= 0 THEN [found |-> found, rest |-> s]
    ELSE LET Record(t, hit) ==
                 LET index == ReadUint8(t)
                     len == ReadUint16LE(Drop(t, 1))
                     case_str == Take(Drop(t, 3), len)
                 IN SwitchCaseRecords(Drop(Drop(t, 3), len), num - 1, case_index,
                        IF index = case_index THEN [has |-> TRUE, str |-> case_str] ELSE hit)
         IN With(s, LAMBDA t : With(found, LAMBDA hit : Record(t, hit)))

(* A case switch that gives its frame the cursor offset *)
SwitchCase_AtCursor(mm, rest) ==
    LET f == TopFrame(Top(mm))
        r == SwitchCaseRecords(Drop(rest, 1), ReadUint8(rest), f.case_index,
                               [has |-> FALSE, str |-> <<>>])
        default_len == ReadUint16LE(r.rest)
        default_str == Take(Drop(r.rest, 2), default_len)
        found == IF r.found.has THEN r.found.str ELSE default_str
    IN PushFrame(SetConsumer(mm, Drop(Drop(r.rest, 2), default_len)),
                 Frame(found, TopArgs(mm).offset, f.case_index))

(* SCC_SWITCH_CASE (lines 1232-1251) *)
SwitchCase(mm, rest) ==
    LET Push(m1, f, r) ==
            LET default_len == ReadUint16LE(r.rest)
                default_str == Take(Drop(r.rest, 2), default_len)
                found == IF r.found.has THEN r.found.str ELSE default_str
            IN PushFrame(SetConsumer(m1, Drop(Drop(r.rest, 2), default_len)),
                         Frame(found, f.first_param_offset, f.case_index))
        Records(m1, f) ==
            With(SwitchCaseRecords(Drop(rest, 1), ReadUint8(rest), f.case_index,
                                   [has |-> FALSE, str |-> <<>>]),
                 LAMBDA r : Push(m1, f, r))
    IN With(mm, LAMBDA m1 : Records(m1, TopFrame(Top(m1))))

(* SCC_NEWGRF_STRINL (lines 1140-1146) *)
StringInline(mm, rest) ==
    LET substr == IF rest = <<>> THEN STR_NULL ELSE Head(rest)
        m2 == SetConsumer(mm, Drop(rest, 1))
    IN IF GetStringTab(substr) = TEXT_TAB_OLD_NEWGRF THEN Fatal(m2)
       ELSE SetNextCase(PushFrame(m2, Frame(GetStringPtr(substr), TopArgs(m2).offset, Top(m2).nsci)), 0)

(* A reference that takes the cursor offset before it reads the id *)
PrintWordStringId_OffsetBefore(mm, rest) ==
    LET r == ReadArg(SetConsumer(mm, rest), FALSE) IN
    IF ~r.ok THEN Catch(r.mm)
    ELSE SetNextCase(PushFrame(r.mm, Frame(GetStringPtr(r.slot.data.n), TopArgs(mm).offset,
                                           Top(r.mm).nsci)), 0)

(* SCC_NEWGRF_PRINT_WORD_STRING_ID (lines 1148-1154) *)
PrintWordStringId(mm, rest) ==
    LET r == ReadArg(SetConsumer(mm, rest), FALSE) IN
    IF ~r.ok THEN Catch(r.mm)
    ELSE IF GetStringTab(r.slot.data.n) = TEXT_TAB_OLD_NEWGRF THEN Fatal(r.mm)
    ELSE SetNextCase(PushFrame(r.mm, Frame(GetStringPtr(r.slot.data.n), TopArgs(r.mm).offset,
                                           Top(r.mm).nsci)), 0)

(* SCC_RAW_STRING_POINTER (lines 1257-1259) *)
RawString(mm, rest) ==
    LET r == ReadArg(SetConsumer(mm, rest), TRUE) IN
    IF ~r.ok THEN Catch(r.mm)
    ELSE EnterFormatString(r.mm, r.slot.data.s, Top(r.mm).args, 0, FALSE, "append", NoCont)

(* SCC_STRING (lines 1261-1269) *)
StringCode(mm, rest) ==
    LET Sub(m1, a, sp, string_id) ==
            IF a.gs /\ GetStringTab(string_id) # TEXT_TAB_GAMESCRIPT_START THEN m1
            ELSE EnterGetStringWithArgs(
                     [m1 EXCEPT !.sps = Append(@, SubParameters(sp, IF a.gs THEN GetDataLeft(sp) ELSE 0))],
                     string_id, Len(m1.sps) + 1, a.nsci, a.gs, "string",
                     [NoCont EXCEPT !.freeSp = TRUE])
        Read(r) ==
            IF ~r.ok THEN Catch(r.mm) ELSE Sub(r.mm, Top(r.mm), TopArgs(r.mm), r.slot.data.n)
    IN Read(ReadArg(SetConsumer(mm, rest), FALSE))

(* SCC_STRING1 .. SCC_STRING7 (lines 1271-1291) *)
StringNCode(mm, rest, b) ==
    LET size == b - SCC_STRING1 + 1
        Sub(m1, a, sp, string_id) ==
            IF a.gs /\ GetStringTab(string_id) # TEXT_TAB_GAMESCRIPT_START THEN m1
            ELSE IF size > GetDataLeft(sp) THEN SetNextCase(PutOut(m1, ConsumedTooManyText), 0)
            ELSE EnterGetStringWithArgs(
                     [m1 EXCEPT !.sps = Append(@, SubParameters(sp, IF a.gs THEN GetDataLeft(sp) ELSE size))],
                     string_id, Len(m1.sps) + 1, a.nsci, a.gs, "stringn",
                     [NoCont EXCEPT !.freeSp = TRUE, !.size = size])
        Read(r) ==
            IF ~r.ok THEN Catch(r.mm) ELSE Sub(r.mm, Top(r.mm), TopArgs(r.mm), r.slot.data.n)
    IN Read(ReadArg(SetConsumer(mm, rest), FALSE))

(* SCC_COMMA (lines 1293-1295) *)
CommaCode(mm, rest) ==
    LET r == ReadArg(SetConsumer(mm, rest), FALSE) IN
    IF ~r.ok THEN Catch(r.mm) ELSE PutOut(r.mm, FormatCommaNumber(r.slot.data.n))

(* SCC_NUM (lines 1313-1315) *)
NumCode(mm, rest) ==
    LET r == ReadArg(SetConsumer(mm, rest), FALSE) IN
    IF ~r.ok THEN Catch(r.mm) ELSE PutOut(r.mm, FormatNoCommaNumber(r.slot.data.n))

(* SCC_DECIMAL (lines 1297-1311).  The numbers of the model are below     *)
(* 10^10: with more than 9 digits the divisor exceeds the number.  More   *)
(* than 18 digits are outside PowerOfTen's range.                         *)
DecimalCode(mm, rest) ==
    LET Write(m2, number, digits) ==
            LET small == digits <= 9
                fractional == IF small THEN CMod(number, PowerOfTen(digits)) ELSE number
                whole == IF small THEN CDiv(number, PowerOfTen(digits)) ELSE 0
            IN IF digits = 0 THEN PutOut(m2, FormatCommaNumber(number))
               ELSE IF digits > 18 THEN Fatal(m2)
               ELSE PutOut(m2, FormatCommaNumber(whole) \o DecimalSeparator \o
                               FormatZerofillNumber(fractional, digits))
        Read2(number, r2) ==
            IF ~r2.ok THEN Catch(r2.mm) ELSE Write(r2.mm, number, r2.slot.data.n)
        Read1(r1) ==
            IF ~r1.ok THEN Catch(r1.mm) ELSE Read2(r1.slot.data.n, ReadArg(r1.mm, FALSE))
    IN Read1(ReadArg(SetConsumer(mm, rest), FALSE))

----------------------------------------------------------------------------
(* The entity-name codes.  The pools of companies, towns, stations, ...   *)
(* are external; one pool stands for all of them: the entity 2 has a      *)
(* custom name, the entity 5 has none and gets a generated one, and no    *)
(* other id names an entity.                                              *)

VEH_AIRCRAFT == 3

ValidIDs == {2, 5}

(* Pool::IsValidID(id), the test behind GetIfValid *)
IsValidID(id) == id \in ValidIDs

(* Pool::Get(id) for a valid id *)
GetEntity(id) ==
    [name |-> IF id = 2 THEN <<78>> ELSE <<>>, string_id |-> STR_NOUN, number |-> 7]

(* GetCachedName() of a town, an industry or a station *)
GetCachedName(e) == IF e.name # <<>> THEN e.name ELSE <<71>>

(* auto tmp_params = MakeParameters(...);                                 *)
(* GetStringWithArgs(builder, string, tmp_params);                        *)
AppendStringWithArgs(mm, string, params) ==
    LET m2 == [mm EXCEPT !.vecs = Append(@, MakeSlots(params)),
                         !.sps = Append(@, NewParameters(Len(mm.vecs) + 1, 0, Len(params)))]
    IN EnterGetStringWithArgs(m2, string, Len(m2.sps), 0, FALSE, "append",
           [NoCont EXCEPT !.freeSp = TRUE, !.freeVec = TRUE])

(* SCC_COMPANY_NAME, SCC_ENGINE_NAME, SCC_GROUP_NAME, SCC_INDUSTRY_NAME,  *)
(* SCC_PRESIDENT_NAME, SCC_TOWN_NAME, SCC_WAYPOINT_NAME, SCC_VEHICLE_NAME *)
(* and SCC_SIGN_NAME (lines 1572-1584, 1616-1697, 1738-1810): the entity  *)
(* is looked up with GetIfValid, and "if (x == nullptr) break;".          *)
(* The engine's name callback is external and left out.                   *)
NameCode(mm, rest, b) ==
    LET Named(m1, e) ==
            CASE b = SCC_INDUSTRY_NAME /\ m1.scan ->
                   LET m2 == [m1 EXCEPT !.vecs = Append(@, <<>>),
                                        !.sps = Append(@, NewParameters(Len(m1.vecs) + 1, 0, 0))]
                   IN EnterFormatString(m2, GetStringPtr(e.string_id), Len(m2.sps), Top(m1).nsci,
                          FALSE, "string", [NoCont EXCEPT !.freeSp = TRUE, !.freeVec = TRUE])
              [] b = SCC_INDUSTRY_NAME /\ ~m1.scan -> SetNextCase(PutOut(m1, GetCachedName(e)), 0)
              [] b = SCC_TOWN_NAME -> PutOut(m1, GetCachedName(e))
              [] OTHER ->
                   IF e.name # <<>>
                   THEN AppendStringWithArgs(m1, STR_JUST_RAW_STRING, <<StrParam(e.name)>>)
                   ELSE IF b \in {SCC_ENGINE_NAME, SCC_SIGN_NAME}
                   THEN AppendStringWithArgs(m1, e.string_id, <<>>)
                   ELSE AppendStringWithArgs(m1, e.string_id, <<NumParam(e.number)>>)
        Read(r) ==
            IF ~r.ok THEN Catch(r.mm)
            ELSE IF ~IsValidID(r.slot.data.n) THEN r.mm
            ELSE Named(r.mm, GetEntity(r.slot.data.n))
    IN Read(ReadArg(SetConsumer(mm, rest), FALSE))

(* A station code that writes nothing for a station that is gone *)
StationName_Silent(mm, rest) == NameCode(mm, rest, SCC_TOWN_NAME)

(* SCC_STATION_NAME (lines 1699-1736) *)
StationName(mm, rest) ==
    LET r == ReadArg(SetConsumer(mm, rest), FALSE)
        sid == r.slot.data.n
    IN IF ~r.ok THEN Catch(r.mm)
       ELSE IF ~IsValidID(sid) THEN AppendStringWithArgs(r.mm, STR_UNKNOWN_STATION, <<>>)
       ELSE PutOut(r.mm, GetCachedName(GetEntity(sid)))

(* Depot::Get(id) is not told whether the id names a depot: from here on  *)
(* the program can do anything.                                           *)
Undefined(mm) == [mm EXCEPT !.err = "undefined"]

(* SCC_DEPOT_NAME (lines 1598-1614) *)
DepotName(mm, rest) ==
    LET Named(m2, d) ==
            IF d.name # <<>>
            THEN AppendStringWithArgs(m2, STR_JUST_RAW_STRING, <<StrParam(d.name)>>)
            ELSE AppendStringWithArgs(m2, d.string_id, <<NumParam(d.number), NumParam(d.number + 1)>>)
        Read2(vt, r2) ==
            IF ~r2.ok THEN Catch(r2.mm)
            ELSE IF vt = VEH_AIRCRAFT
            THEN AppendStringWithArgs(r2.mm, STR_FORMAT_DEPOT_NAME_AIRCRAFT, <<NumParam(r2.slot.data.n)>>)
            ELSE IF ~IsValidID(r2.slot.data.n) THEN Undefined(r2.mm)
            ELSE Named(r2.mm, GetEntity(r2.slot.data.n))
        Read1(r1) ==
            IF ~r1.ok THEN Catch(r1.mm) ELSE Read2(r1.slot.data.n, ReadArg(r1.mm, FALSE))
    IN Read1(ReadArg(SetConsumer(mm, rest), FALSE))

----------------------------------------------------------------------------
(* The FormatString loop *)

Front(s) == SubSeq(s, 1, Len(s) - 1)

(* while (!str_stack.empty() && !str_stack.top().consumer.AnyBytesLeft()) pop (line 1107) *)
RECURSIVE PopExhausted(_)
PopExhausted(stack) ==
    IF stack # <<>> /\ stack[Len(stack)].s = <<>> THEN PopExhausted(Front(stack)) ELSE stack

(* A scan that takes the second form when it finds no marker *)
ScannedGender_DefaultOne(buffer) ==
    IF buffer # <<>> /\ Head(buffer) = SCC_GENDER_INDEX THEN ReadUint8(Tail(buffer)) ELSE 1

(* The gender a scanned sub-expansion starts with (lines 1183-1186) *)
ScannedGender(buffer) ==
    IF buffer # <<>> /\ Head(buffer) = SCC_GENDER_INDEX THEN ReadUint8(Tail(buffer)) ELSE 0

(* A scope exit that leaves _scan_for_gender_data as it is *)
RestoreBackup_Skip(mm, saved) == mm

(* The end of the scope of sgd_backup (lines 1175-1179) *)
RestoreBackup(mm, saved) == [mm EXCEPT !.scan = saved]

(* An activation returns (line 1110, break): the caller goes on after the *)
(* call it made, which is what cont names.                                *)
Return(mm) ==
    LET a == Top(mm)
        m1 == [mm EXCEPT !.calls = Front(@),
                         !.sps = IF a.cd.freeSp THEN Front(@) ELSE @,
                         !.vecs = IF a.cd.freeVec THEN Front(@) ELSE @]
    IN CASE a.cont = "root" -> [m1 EXCEPT !.ret = a.out]
         [] a.cont = "dry" -> SetArgs(m1, SetOffset(TopArgs(m1), Top(m1).ofpo))
         [] a.cont = "append" -> PutOut(m1, a.out)
         [] a.cont = "string" -> SetNextCase(PutOut(m1, a.out), 0)
         [] a.cont = "stringn" ->
              SetNextCase(SetArgs(PutOut(m1, a.out), AdvanceOffset(TopArgs(m1), a.cd.size)), 0)
         [] a.cont = "gender" ->
              LET c == ParseStringChoice(TopFrame(Top(m1)).s, ScannedGender(a.out))
              IN PutOut(SetConsumer(RestoreBackup(m1, a.cd.saved), c.rest), c.text)

(* One code point of the top frame (lines 1111-1826) *)
Dispatch(mm) ==
    LET f == TopFrame(Top(mm))
        b == ReadUtf8(f.s)
        rest == Tail(f.s)
        m1 == SetArgs(mm, SetTypeOfNextParameter(TopArgs(mm), b))
    IN IF b = 0
       THEN IF mm.asserts THEN Fatal(mm) ELSE PutOut(SetConsumer(mm, rest), UnexpectedNulText)
       ELSE IF b < SCC_CONTROL_START \/ b > SCC_CONTROL_END
       THEN PutOut(SetConsumer(mm, rest), <<b>>)
       ELSE CASE b = SCC_ENCODED \/ b = SCC_ENCODED_INTERNAL ->
                   DecodeEncodedString(m1, rest, b = SCC_ENCODED)
              [] b = SCC_NEWGRF_STRINL -> StringInline(m1, rest)
              [] b = SCC_NEWGRF_PRINT_WORD_STRING_ID -> PrintWordStringId(m1, rest)
              [] b = SCC_GENDER_LIST -> GenderList(m1, rest)
              [] b = SCC_GENDER_INDEX -> GenderIndex(m1, rest)
              [] b = SCC_PLURAL_LIST -> PluralList(m1, rest)
              [] b = SCC_ARG_INDEX -> ArgIndex(m1, rest)
              [] b = SCC_SET_CASE -> SetCase(m1, rest)
              [] b = SCC_SWITCH_CASE -> SwitchCase(m1, rest)
              [] b = SCC_RAW_STRING_POINTER -> RawString(m1, rest)
              [] b = SCC_STRING -> StringCode(m1, rest)
              [] b >= SCC_STRING1 /\ b <= SCC_STRING7 -> StringNCode(m1, rest, b)
              [] b = SCC_COMMA -> CommaCode(m1, rest)
              [] b = SCC_DECIMAL -> DecimalCode(m1, rest)
              [] b = SCC_NUM -> NumCode(m1, rest)
              [] b \in {SCC_COMPANY_NAME, SCC_ENGINE_NAME, SCC_GROUP_NAME, SCC_INDUSTRY_NAME,
                        SCC_PRESIDENT_NAME, SCC_TOWN_NAME, SCC_WAYPOINT_NAME, SCC_VEHICLE_NAME,
                        SCC_SIGN_NAME} -> NameCode(m1, rest, b)
              [] b = SCC_STATION_NAME -> StationName(m1, rest)
              [] b = SCC_DEPOT_NAME -> DepotName(m1, rest)
              [] OTHER -> PutOut(SetConsumer(m1, rest), <<b>>)

(* One round of the for (;;) loop of the innermost activation: drop the   *)
(* exhausted frames, return when none is left, else take one code point.  *)
Step(mm) ==
    LET live == PopExhausted(Top(mm).stack)
        m1 == [mm EXCEPT !.calls[Len(mm.calls)].stack = live]
    IN IF live = <<>> THEN Return(m1) ELSE Dispatch(m1)

Running(mm) == mm.calls # <<>> /\ mm.err = "none"

(* At most n rounds of the loop *)
RECURSIVE RunFor(_, _)
RunFor(mm, n) == IF n = 0 \/ ~Running(mm) THEN mm ELSE RunFor(Step(mm), n - 1)

(* The loop to its end, sixteen rounds at a time *)
RECURSIVE Run(_)
Run(mm) == IF Running(mm) THEN Run(RunFor(mm, 16)) ELSE mm

(* GetStringWithArgs(string, params) on a vector of slots (lines 404-408, *)
(* 452-458): the machine at the entry of the call                         *)
StartGetStringWithArgs(string, slots, asserts) ==
    EnterGetStringWithArgs(
        [vecs |-> <<slots>>, sps |-> <<NewParameters(1, 0, Len(slots))>>, calls |-> <<>>,
         scan |-> FALSE, ret |-> <<>>, err |-> "none", asserts |-> asserts],
        string, 1, 0, FALSE, "root", NoCont)

GetStringWithArgs(string, slots, asserts) == Run(StartGetStringWithArgs(string, slots, asserts))

(* EncodedString::GetDecodedString (lines 208-211) *)
GetDecodedString(string, asserts) ==
    GetStringWithArgs(STR_JUST_RAW_STRING, MakeSlots(<<StrParam(string)>>), asserts)

----------------------------------------------------------------------------
(* Formatting a string, one round of the loop at a time.  A caller formats *)
(* the string inp.string with the parameters inp.params, and then formats  *)
(* it a second time, on fresh slots or on the slots of the first call.     *)

RECURSIVE SeqsUpTo(_, _)
SeqsUpTo(S, n) ==
    IF n = 0 THEN {<<>>}
    ELSE LET shorter == SeqsUpTo(S, n - 1)
         IN shorter \cup {Append(q, x) : q \in {r \in shorter : Len(r) = n - 1}, x \in S}

ParamNumbers == {0, 2, VEH_AIRCRAFT, STR_STRING1, STR_NOUN_F, STR_NOUN}

ParamValues == {NumParam(n) : n \in ParamNumbers} \cup {StrParam(<<97>>), EmptyParam}

FormatInputs ==
    [string : 0 .. (Len(LangStrings) - 1), params : SeqsUpTo(ParamValues, MaxParams),
     asserts : BOOLEAN]

(* The next code point of the innermost activation, 0 when it returns *)
NextCode(mm) ==
    LET live == PopExhausted(Top(mm).stack)
    IN IF live = <<>> THEN 0 ELSE ReadUtf8(live[Len(live)].s)

IsControl(b) == b >= SCC_CONTROL_START /\ b <= SCC_CONTROL_END

Init ==
    /\ inp \in FormatInputs
    /\ m = StartGetStringWithArgs(inp.string, MakeSlots(inp.params), inp.asserts)
    /\ res = <<>>
    /\ phase = "first"

(* A literal code point is copied to the output (lines 1128-1131) *)
Literal ==
    /\ Running(m) /\ NextCode(m) # 0 /\ ~IsControl(NextCode(m))
    /\ m' = Step(m)
    /\ UNCHANGED <<inp, res, phase>>

(* A control code is interpreted (lines 1133-1822) *)
ControlCode ==
    /\ Running(m) /\ IsControl(NextCode(m))
    /\ m' = Step(m)
    /\ UNCHANGED <<inp, res, phase>>

(* The frame stack is empty: the activation returns (line 1110) *)
ReturnCall ==
    /\ Running(m) /\ PopExhausted(Top(m).stack) = <<>>
    /\ m' = Step(m)
    /\ UNCHANGED <<inp, res, phase>>

(* The caller keeps the text and formats again with new slots *)
AgainFresh ==
    /\ ~Running(m) /\ m.err = "none" /\ phase = "first"
    /\ res' = Append(res, m.ret)
    /\ m' = StartGetStringWithArgs(inp.string, MakeSlots(inp.params), inp.asserts)
    /\ phase' = "second"
    /\ UNCHANGED inp

(* The caller keeps the text and formats again with the slots it has *)
AgainSame ==
    /\ ~Running(m) /\ m.err = "none" /\ phase = "first"
    /\ res' = Append(res, m.ret)
    /\ m' = StartGetStringWithArgs(inp.string, m.vecs[1], inp.asserts)
    /\ phase' = "same"
    /\ UNCHANGED inp

Done ==
    /\ ~Running(m) /\ m.err = "none" /\ phase \in {"second", "same"}
    /\ res' = Append(res, m.ret)
    /\ phase' = "done"
    /\ UNCHANGED <<m, inp>>

Next == Literal \/ ControlCode \/ ReturnCall \/ AgainFresh \/ AgainSame \/ Done

Spec == Init /\ [][Next]_vars

----------------------------------------------------------------------------
(* Properties of the formatting loop *)

(* The control codes that start by reading the next parameter *)
ReadingCodes ==
    {SCC_RAW_STRING_POINTER, SCC_STRING, SCC_COMMA, SCC_NUM, SCC_DECIMAL,
     SCC_NEWGRF_PRINT_WORD_STRING_ID} \cup (SCC_STRING1 .. SCC_STRING7)
    \cup {EntityCodes[i] : i \in 1 .. Len(EntityCodes)}

(* The code at hand reads the next parameter, and the cursor is at or past *)
(* the end or the slot there is claimed under another type.                *)
ReadFails(mm) ==
    LET sp == TopArgs(mm)
        i == sp.base + sp.offset + 1
    IN /\ NextCode(mm) \in ReadingCodes
       /\ \/ sp.offset >= sp.size
          \/ TopSlots(mm)[i].type \notin {0, NextCode(mm)}

(* The frames of the innermost activation that still have text, and these *)
(* frames once the code point at hand is read                             *)
LiveStack(mm) == PopExhausted(Top(mm).stack)

AfterCode(mm) ==
    LET live == LiveStack(mm) IN [live EXCEPT ![Len(live)].s = Tail(@)]

(* STR_ARGS rendered as its template reads: a jump to slot 5, a failing  *)
(* {COMMA}, "z", a jump to slot 0, {NUM}, a jump to slot 0, a {COMMA} on *)
(* the slot {NUM} has claimed, "y".                                      *)
ArgsText(params) ==
    InvalidParameterText \o <<122>>
    \o (IF params # <<>> /\ params[1].k = "num"
        THEN DecimalDigits(params[1].n) ELSE InvalidParameterText)
    \o InvalidParameterText \o <<121>>

(* C5: when the parameter read of a control code fails, that round of the *)
(* loop appends exactly "(invalid parameter)" to the output of the same   *)
(* activation, the failure goes no further, and the loop goes on with the *)
(* code point after the code; a literal is always appended; so STR_ARGS   *)
(* renders to its end with both diagnostics and both literals in place.   *)
C5_FailedReadContinues ==
    /\ [][(Running(m) /\ ReadFails(m)) =>
            /\ m'.err = "none"
            /\ Len(m'.calls) = Len(m.calls)
            /\ Top(m').out = Top(m).out \o InvalidParameterText
            /\ Top(m').stack = AfterCode(m)]_vars
    /\ [][(Running(m) /\ NextCode(m) # 0 /\ ~IsControl(NextCode(m))) =>
            /\ Len(m'.calls) = Len(m.calls)
            /\ Top(m').stack = AfterCode(m)
            /\ Top(m').out = Append(Top(m).out, NextCode(m))]_vars
    /\ []((phase = "done" /\ inp.string = STR_ARGS) =>
            (m.ret = ArgsText(inp.params) /\ res = <<m.ret, m.ret>>))

(* A formatting that met two failing reads and went on to the end *)
C5_Witness ==
    /\ phase = "done" /\ inp.string = STR_ARGS /\ Len(inp.params) = 2
    /\ inp.params[1] = NumParam(2)
    /\ m.ret = InvalidParameterText \o <<122, 50>> \o InvalidParameterText \o <<121>>

(* The string formatted is "<{X}>" for the entity-name code X *)
FormatsEntity(code) ==
    \E i \in 1 .. Len(EntityCodes) : EntityCodes[i] = code /\ inp.string = STR_ENTITY + i - 1

(* The parameter at position i is a number that names no entity *)
NamesNothing(i) ==
    Len(inp.params) >= i /\ inp.params[i].k = "num" /\ ~IsValidID(inp.params[i].n)

Bracketed(text) == <<60>> \o text \o <<62>>

ScanningGender(mm) == \E i \in 1 .. Len(mm.calls) : mm.calls[i].cont = "gender"

(* C14: a call returns with _scan_for_gender_data as it was when the call *)
(* was entered, and after the call of a gender list the flag is what it   *)
(* was before that code, also when a read failed in between; no other     *)
(* return changes the flag; the flag is true exactly while the            *)
(* sub-expansion of a gender list is formatted; a gender-index code       *)
(* writes its marker exactly when the flag is true.                       *)
C14_GenderScanFlagRestored ==
    /\ [][(Running(m) /\ LiveStack(m) = <<>>) =>
            /\ m.scan = Top(m).entry_scan
            /\ m'.scan = IF Top(m).cont = "gender" THEN Top(m).cd.saved ELSE m.scan
            /\ Len(m'.calls) > 0 => m'.scan = Top(m').entry_scan]_vars
    /\ [](m.err = "none" => (m.scan <=> ScanningGender(m)))
    /\ [][(Running(m) /\ NextCode(m) = SCC_GENDER_INDEX) =>
            Top(m').out = Top(m).out \o (IF m.scan
                                         THEN <<SCC_GENDER_INDEX, ReadUint8(Tail(TopFrame(Top(m)).s))>>
                                         ELSE <<>>)]_vars

(* The scanned sub-expansion of a gender list, in which a read has failed, *)
(* is about to return                                                      *)
C14_Witness ==
    /\ Running(m) /\ LiveStack(m) = <<>>
    /\ Top(m).cont = "gender" /\ ~Top(m).cd.saved
    /\ Top(m).out = InvalidParameterText
    /\ m.scan

(* The slot under the cursor of the innermost activation *)
SlotAtCursor(mm) == TopSlots(mm)[TopArgs(mm).base + TopArgs(mm).offset + 1]

(* The code at hand is a sub-string reference whose id is there: written  *)
(* after the code, or in the slot under the cursor as a number not        *)
(* claimed under another type                                             *)
MeetsSubstring(mm) ==
    /\ Running(mm)
    /\ \/ NextCode(mm) = SCC_NEWGRF_STRINL
       \/ /\ NextCode(mm) = SCC_NEWGRF_PRINT_WORD_STRING_ID
          /\ TopArgs(mm).offset < TopArgs(mm).size
          /\ SlotAtCursor(mm).type \in {0, SCC_NEWGRF_PRINT_WORD_STRING_ID}
          /\ SlotAtCursor(mm).data.k = "num"

SubstringId(mm) ==
    IF NextCode(mm) = SCC_NEWGRF_STRINL THEN ReadUtf8(Tail(TopFrame([stack |-> LiveStack(mm)]).s))
    ELSE SlotAtCursor(mm).data.n

(* C17: a sub-string reference, with its id inline or read from the       *)
(* parameters, pushes a frame over the text of that string; the frame's   *)
(* reference offset is the cursor offset once the id is read and its case *)
(* index is the pending case override, which is 0 afterwards.  The frames *)
(* below are as they were, the referring frame past the code and its      *)
(* inline id.  A set-case code sets the pending override to the byte that *)
(* follows it, and nothing else in an activation makes it non-zero.       *)
C17_SubstringFrame ==
    /\ [][MeetsSubstring(m) =>
            LET inline == NextCode(m) = SCC_NEWGRF_STRINL
                offset == TopArgs(m).offset + (IF inline THEN 0 ELSE 1)
            IN /\ m'.err = "none"
               /\ Len(m'.calls) = Len(m.calls)
               /\ Top(m').stack =
                     Append([LiveStack(m) EXCEPT ![Len(LiveStack(m))].s =
                                 Drop(@, IF inline THEN 2 ELSE 1)],
                            Frame(GetStringPtr(SubstringId(m)), offset, Top(m).nsci))
               /\ TopArgs(m').offset = offset
               /\ Top(m').nsci = 0
               /\ Top(m').out = Top(m).out]_vars
    /\ [][(Running(m) /\ NextCode(m) = SCC_SET_CASE) =>
            /\ Len(m'.calls) = Len(m.calls)
            /\ Top(m').nsci = ReadUint8(Tail(TopFrame([stack |-> LiveStack(m)]).s))
            /\ Top(m').stack = [LiveStack(m) EXCEPT ![Len(LiveStack(m))].s = Drop(@, 2)]
            /\ TopArgs(m').offset = TopArgs(m).offset]_vars
    /\ [][(Running(m) /\ Len(m'.calls) = Len(m.calls) /\ Top(m').nsci \notin {0, Top(m).nsci}) =>
            NextCode(m) = SCC_SET_CASE]_vars

(* After {SET_CASE 1} the inline reference to STR_CASES2 has pushed a     *)
(* frame with case index 1 over its text, at the cursor offset 0, and the *)
(* pending override is 0 again                                            *)
C17_Witness ==
    /\ Running(m) /\ inp.string = STR_CASE_INLINE /\ ~Top(m).dry
    /\ Len(Top(m).stack) = 2
    /\ TopFrame(Top(m)) = Frame(LangStrings[STR_CASES2 + 1], 0, 1)
    /\ Top(m).nsci = 0

(* The records of a case switch, read from the text behind its count *)
RECURSIVE CaseRecordList(_, _)
CaseRecordList(s, num) ==
    IF num = 0 THEN <<>>
    ELSE LET len == s[2] + 256 * s[3]
         IN <<[tag |-> s[1], text |-> SubSeq(s, 4, 3 + len)]>>
            \o CaseRecordList(SubSeq(s, 4 + len, Len(s)), num - 1)

RECURSIVE RecordsLength(_)
RecordsLength(recs) ==
    IF recs = <<>> THEN 0 ELSE 3 + Len(Head(recs).text) + RecordsLength(Tail(recs))

(* The parts of a well-formed case switch, from the text behind its code: *)
(* the records, the default text and the text after the default record    *)
SwitchParts(s) ==
    LET recs == CaseRecordList(Tail(s), s[1])
        used == 1 + RecordsLength(recs)
        len == s[used + 1] + 256 * s[used + 2]
    IN [recs |-> recs,
        default |-> SubSeq(s, used + 3, used + 2 + len),
        after |-> SubSeq(s, used + 3 + len, Len(s))]

(* The text a case switch selects for a case index, the tags being distinct *)
SelectedText(parts, case_index) ==
    IF \E i \in DOMAIN parts.recs : parts.recs[i].tag = case_index
    THEN parts.recs[CHOOSE i \in DOMAIN parts.recs : parts.recs[i].tag = case_index].text
    ELSE parts.default

(* C18: a case switch pushes a frame over the text of the record whose    *)
(* tag is the case index of the frame it stands in, or over the default   *)
(* text when no tag is; the new frame has the reference offset and the    *)
(* case index of that frame; cursor, slots and output stay as they are;   *)
(* the frame it stands in is left just behind the default record, and no  *)
(* step changes a frame below the top one, so that is where it resumes    *)
(* when the pushed frame is exhausted.                                    *)
C18_SwitchCaseFrame ==
    /\ [][(Running(m) /\ NextCode(m) = SCC_SWITCH_CASE) =>
            LET live == LiveStack(m)
                f == live[Len(live)]
                parts == SwitchParts(Tail(f.s))
            IN /\ m'.err = "none"
               /\ Len(m'.calls) = Len(m.calls)
               /\ Top(m').stack =
                     Append([live EXCEPT ![Len(live)].s = parts.after],
                            Frame(SelectedText(parts, f.case_index), f.first_param_offset, f.case_index))
               /\ TopArgs(m').offset = TopArgs(m).offset
               /\ m'.vecs = m.vecs
               /\ Top(m').out = Top(m).out
               /\ Top(m').nsci = Top(m).nsci]_vars
    /\ [][Running(m) =>
            \A k \in 1 .. Len(m.calls) :
                LET below == IF k = Len(m.calls) THEN Len(LiveStack(m)) - 1
                             ELSE Len(m.calls[k].stack) - 1
                IN \A j \in 1 .. below :
                       k <= Len(m'.calls) => m'.calls[k].stack[j] = m.calls[k].stack[j]]_vars

(* In STR_CASES2, reached with case index 1 and one parameter read, the   *)
(* switch has pushed a frame over "DE" with reference offset 0, and the   *)
(* frame below is left at "!"                                             *)
C18_Witness ==
    /\ Running(m) /\ inp.string = STR_CASE_INLINE /\ ~Top(m).dry
    /\ Len(Top(m).stack) = 3
    /\ TopFrame(Top(m)) = Frame(<<68, 69>>, 0, 1)
    /\ Top(m).stack[2] = Frame(<<33>>, 0, 1)
    /\ TopArgs(m).offset = 1

(* Formatting to its end.  The caller is idle, then calls                *)
(* GetStringWithArgs; the loop runs on until it ends, being sequential    *)
(* code.                                                                  *)
LiveValues == {NumParam(2), NumParam(STR_STRING1), StrParam(<<97>>)}

(* The strings with sub-string codes, case switches and a gender list     *)
LiveStrings ==
    {STR_JUST_RAW_STRING, STR_CASES, STR_STRING1, STR_GENDER, STR_SET_CASE, STR_INLINE,
     STR_CASE_INLINE, STR_CASES2}

LiveInputs ==
    [string : LiveStrings, params : SeqsUpTo(LiveValues, MaxParams), asserts : BOOLEAN]

InitLive ==
    /\ inp = [string |-> STR_NULL, params |-> <<>>, asserts |-> FALSE]
    /\ m = [vecs |-> <<>>, sps |-> <<>>, calls |-> <<>>, scan |-> FALSE, ret |-> <<>>,
            err |-> "none", asserts |-> FALSE]
    /\ res = <<>>
    /\ phase = "idle"

(* GetStringWithArgs(string, params) is called *)
CallFormat ==
    /\ phase = "idle"
    /\ \E i \in LiveInputs :
          /\ inp' = i
          /\ m' = StartGetStringWithArgs(i.string, MakeSlots(i.params), i.asserts)
    /\ phase' = "first"
    /\ UNCHANGED res

NextLive == CallFormat \/ Literal \/ ControlCode \/ ReturnCall \/ AgainFresh \/ AgainSame \/ Done

SpecLive == InitLive /\ [][NextLive]_vars /\ WF_vars(NextLive)

(* s is what is left of t after at least one code point *)
ProperSuffix(s, t) == Len(s) < Len(t) /\ s = SubSeq(t, Len(t) - Len(s) + 1, Len(t))

PushingCodes == {SCC_NEWGRF_STRINL, SCC_NEWGRF_PRINT_WORD_STRING_ID, SCC_SWITCH_CASE}

(* C19: formatting ends, the strings of the language being acyclic.  A    *)
(* round of the loop that finds a frame with text reads at least one code *)
(* point of the topmost such frame; it pushes a frame, and then just one, *)
(* only at a sub-string code or a case switch; the loop of an activation  *)
(* ends in the round that finds no frame with text, and in no other.      *)
C19_Terminates ==
    /\ Running(m) ~> ~Running(m)
    /\ [][(Running(m) /\ LiveStack(m) # <<>> /\ m'.err = "none") =>
            LET k == Len(m.calls)
                n == Len(LiveStack(m))
            IN /\ Len(m'.calls) >= k
               /\ Len(m'.calls[k].stack) \in {n, n + 1}
               /\ ProperSuffix(m'.calls[k].stack[n].s, LiveStack(m)[n].s)
               /\ Len(m'.calls[k].stack) = n + 1 =>
                      NextCode(m) \in PushingCodes /\ Len(m'.calls) = k]_vars
    /\ [][Running(m) => (LiveStack(m) = <<>> <=> Len(m'.calls) < Len(m.calls))]_vars
    /\ [][(Running(m) /\ LiveStack(m) = <<>>) => Len(m'.calls) = Len(m.calls) - 1]_vars

(* The string with two inline references, a reference by parameter and    *)
(* two case switches is formatted to its end, twice                       *)
C19_Witness ==
    /\ phase = "done" /\ inp.string = STR_CASE_INLINE
    /\ inp.params = <<NumParam(2), NumParam(STR_STRING1)>>
    /\ m.calls = <<>> /\ m.err = "none"
    /\ Len(res) = 2 /\ res[1] = res[2] /\ Len(res[1]) > 3

(* The innermost activation is about to return to the caller *)
Returns(mm, cont) == Running(mm) /\ LiveStack(mm) = <<>> /\ Top(mm).cont = cont

Caller(mm) == mm.calls[Len(mm.calls) - 1]

(* The code at hand is {STRING} or {STRINGk} in a template that is not a  *)
(* game script's, and its id is in the slot under the cursor              *)
MeetsString(mm) ==
    /\ Running(mm) /\ ~Top(mm).gs
    /\ NextCode(mm) \in {SCC_STRING} \cup (SCC_STRING1..SCC_STRING7)
    /\ TopArgs(mm).offset < TopArgs(mm).size
    /\ SlotAtCursor(mm).type \in {0, NextCode(mm)}
    /\ SlotAtCursor(mm).data.k = "num"

(* The parameters the code at hand gives to the string it includes *)
WindowSize(mm) == IF NextCode(mm) = SCC_STRING THEN 0 ELSE NextCode(mm) - SCC_STRING1 + 1

(* The parameters left behind the id *)
LeftBehindId(mm) == TopArgs(mm).size - TopArgs(mm).offset - 1

(* The activations of included strings: those a {STRING} or {STRINGk}     *)
(* code started                                                           *)
IncludedCalls(mm) ==
    {c \in 2..Len(mm.calls) : mm.calls[c].cont \in {"string", "stringn"} /\ ~mm.calls[c - 1].gs}

HereFrame(mm) == TopFrame([stack |-> LiveStack(mm)])

(* The i-th code point behind the code at hand *)
Operand(mm, i) == ReadUint8(Drop(HereFrame(mm).s, i))

(* The slot at offset of the parameters of the innermost activation *)
SlotAt(mm, offset) == TopSlots(mm)[TopArgs(mm).base + offset + 1]

(* C22: an argument-index code with operand k puts the cursor at the      *)
(* reference offset of the frame it is read from plus k; a plural list    *)
(* and a gender list with operand k take the value, or the claimed type,  *)
(* of the slot at that reference offset plus k and leave the cursor of    *)
(* their activation where it is, also while and after the text of the     *)
(* claimed type is formatted for its gender.                              *)
C22_RelativeToFrame ==
    /\ [][(Running(m) /\ NextCode(m) = SCC_ARG_INDEX) =>
            /\ Len(m'.calls) = Len(m.calls)
            /\ TopArgs(m').offset = HereFrame(m).first_param_offset + Operand(m, 1)
            /\ Top(m').stack = [LiveStack(m) EXCEPT ![Len(LiveStack(m))].s = Drop(@, 2)]
            /\ Top(m').out = Top(m).out
            /\ m'.vecs = m.vecs]_vars
    /\ [][(Running(m) /\ NextCode(m) = SCC_PLURAL_LIST) =>
            LET offset == HereFrame(m).first_param_offset + Operand(m, 2)
                list == Drop(HereFrame(m).s, 3)
                there == offset < TopArgs(m).size /\ SlotAt(m, offset).data.k = "num"
                form == DeterminePluralForm(SlotAt(m, offset).data.n, Operand(m, 1))
            IN /\ Len(m'.calls) = Len(m.calls)
               /\ TopArgs(m').offset = TopArgs(m).offset
               /\ m'.vecs = m.vecs
               /\ (there /\ form # NotReached) =>
                     Top(m').out = Top(m).out \o ParseStringChoice(list, form).text
               /\ ~there => Top(m').out = Top(m).out \o InvalidPluralText]_vars
    /\ [][(Running(m) /\ NextCode(m) = SCC_GENDER_LIST) =>
            LET offset == HereFrame(m).first_param_offset + Operand(m, 1)
                list == Drop(HereFrame(m).s, 2)
                n == Len(m.calls)
                scans == offset < TopArgs(m).size /\ ~Top(m).dry /\ SlotAt(m, offset).type # 0
            IN /\ m'.sps[Top(m).args].offset = TopArgs(m).offset
               /\ m'.vecs = m.vecs
               /\ scans =>
                     /\ Len(m'.calls) = n + 2
                     /\ m'.calls[n + 1].cont = "gender"
                     /\ m'.calls[n + 1].stack = <<Frame(<<SlotAt(m, offset).type>>, 0, 0)>>
                     /\ TopArgs(m') = NewParameters(TopArgs(m).vec, TopArgs(m).base + offset,
                                                    TopArgs(m).size - offset)
               /\ ~scans =>
                     /\ Len(m'.calls) = n
                     /\ Top(m').stack # <<>>
                     /\ TopFrame(Top(m')).s = SkipStringChoice(list)]_vars
    /\ [][Running(m) =>
            \A c \in {d \in 2 .. Len(m.calls) : m.calls[d].cont = "gender"} :
                Len(m'.calls) >= c => m'.sps[m.calls[c - 1].args] = m.sps[m.calls[c - 1].args]]_vars
    /\ [][Returns(m, "gender") =>
            /\ Len(m'.calls) = Len(m.calls) - 1
            /\ TopArgs(m').offset = m.sps[Caller(m).args].offset]_vars

(* With the cursor at 1 the inline string's frame has the reference       *)
(* offset 1; its {ARG_INDEX 0} has put the cursor back at 1 after the     *)
(* gender list formatted the type claimed for the slot 1                  *)
C22_Witness ==
    /\ Running(m) /\ inp.string = STR_NUM_INLINE /\ Len(inp.params) = 2
    /\ ~Top(m).dry /\ Len(m.calls) = 1
    /\ LiveStack(m) # <<>>
    /\ HereFrame(m) = Frame(<<SCC_NUM>>, 1, 0)
    /\ TopArgs(m).offset = 1
    /\ m.vecs[1][2].type = SCC_NUM

(* C25: a plural list or a gender list whose slot is at or beyond the     *)
(* number of parameters appends its diagnostic and nothing else, leaves   *)
(* its frame right behind the choice list and the cursor where it is.     *)
C25_InvalidSlotDiagnosticOnly ==
    [][(Running(m) /\ NextCode(m) \in {SCC_PLURAL_LIST, SCC_GENDER_LIST}) =>
          LET plural == NextCode(m) = SCC_PLURAL_LIST
              offset == HereFrame(m).first_param_offset + Operand(m, IF plural THEN 2 ELSE 1)
              list == Drop(HereFrame(m).s, IF plural THEN 3 ELSE 2)
          IN offset >= TopArgs(m).size =>
                /\ Len(m'.calls) = Len(m.calls)
                /\ Top(m').out = Top(m).out \o
                                 (IF plural THEN InvalidPluralText ELSE InvalidGenderText)
                /\ Top(m').stack = [LiveStack(m) EXCEPT ![Len(LiveStack(m))].s =
                                        SkipStringChoice(list)]
                /\ TopArgs(m').offset = TopArgs(m).offset]_vars

(* C7: while a string is formatted and after it, the slots the caller     *)
(* passed are as many as before and hold the values they held; only the   *)
(* claimed types and the cursor differ.                                   *)
C7_ValuesUntouched ==
    /\ Len(m.vecs) >= 1
    /\ SlotData(m.vecs[1]) = inp.params
    /\ m.sps[1].size = Len(inp.params)
    /\ m.sps[1].vec = 1 /\ m.sps[1].base = 0

(* After both calls the types are claimed and the cursor has moved *)
C7_Witness ==
    /\ phase = "done" /\ inp.string = STR_GENDER /\ Len(inp.params) = 2
    /\ m.sps[1].offset > 0
    /\ \E i \in DOMAIN m.vecs[1] : m.vecs[1][i].type # 0

(* C9: a gender list whose scanned sub-expansion has no marker at its     *)
(* start takes form 0; the dry run leaves the output alone and puts the   *)
(* cursor back where the call was entered; and the second formatting, on  *)
(* fresh slots or on the same ones, gives the text of the first.          *)
C9_GenderDefaultAndRepeatable ==
    /\ [][(Returns(m, "gender") /\ (Top(m).out = <<>> \/ Head(Top(m).out) # SCC_GENDER_INDEX)) =>
            /\ Len(m'.calls) = Len(m.calls) - 1
            /\ Top(m').out = Caller(m).out
                             \o ParseStringChoice(TopFrame(Caller(m)).s, 0).text]_vars
    /\ [][Returns(m, "dry") =>
            /\ Len(m'.calls) = Len(m.calls) - 1
            /\ Top(m').out = Caller(m).out
            /\ Top(m').stack = Caller(m).stack
            /\ TopArgs(m').offset = Caller(m).ofpo]_vars
    /\ []((phase = "done" /\ inp.string = STR_GENDER /\ inp.params # <<>>
           /\ inp.params[1] = NumParam(STR_NOUN)) => Head(m.ret) = 109)
    /\ [](phase = "done" => res[1] = res[2])

(* Both second formattings of a gender list over a noun without a marker *)
C9_Witness ==
    /\ phase = "done" /\ inp.string = STR_GENDER
    /\ inp.params = <<NumParam(STR_NOUN), NumParam(2)>>
    /\ res = << <<109, 89>> \o InvalidParameterText, <<109, 89>> \o InvalidParameterText >>

----------------------------------------------------------------------------
(* Plural forms: DeterminePluralForm on a count and on its negation *)

PluralRules == 0 .. 14

InitPlural ==
    /\ inp \in [count : (-MaxCount) .. MaxCount, plural_form : PluralRules]
    /\ m = <<>>
    /\ res = <<>>
    /\ phase = "start"

PluralOfCount ==
    /\ phase = "start"
    /\ res' = <<DeterminePluralForm(inp.count, inp.plural_form)>>
    /\ phase' = "count"
    /\ UNCHANGED <<m, inp>>

PluralOfNegation ==
    /\ phase = "count"
    /\ res' = Append(res, DeterminePluralForm(-inp.count, inp.plural_form))
    /\ phase' = "done"
    /\ UNCHANGED <<m, inp>>

NextPlural == PluralOfCount \/ PluralOfNegation

SpecPlural == InitPlural /\ [][NextPlural]_vars

(* The number of forms of each plural rule, rule 0 first *)
PluralForms == <<2, 1, 2, 3, 5, 3, 3, 3, 4, 2, 3, 2, 4, 4, 3>>

(* C8: for every count and every rule 0..14 the form returned is an index *)
(* below the rule's number of forms, no NOT_REACHED branch is taken, and  *)
(* the negated count gets the same form.                                  *)
C8_PluralFormInRange ==
    /\ phase # "start" =>
         /\ res[1] # NotReached
         /\ res[1] \in 0 .. (PluralForms[inp.plural_form + 1] - 1)
    /\ phase = "done" => res[2] = res[1]

(* Rule 11 on a negative count whose last digit is 9, and its negation *)
C8_Witness ==
    /\ phase = "done" /\ inp.plural_form = 11 /\ inp.count = -119
    /\ res = <<1, 1>>

----------------------------------------------------------------------------
(* Choice lists: ParseStringChoice and SkipStringChoice on a list of texts *)
(* with something behind it                                               *)

MaxTexts == 3

MaxTextLen == 2

(* The texts hold a letter and a control code *)
ChoiceTexts == UNION {[1 .. k -> {65, SCC_COMMA}] : k \in 0 .. MaxTextLen}

ChoiceTails == {<<>>, <<66>>, <<SCC_COMMA, 1>>}

RECURSIVE Concat(_)
Concat(ss) == IF ss = <<>> THEN <<>> ELSE Head(ss) \o Concat(Tail(ss))

(* <NUM> {length of each text} {each text} *)
ChoiceList(texts) == <<Len(texts)>> \o [i \in 1 .. Len(texts) |-> Len(texts[i])] \o Concat(texts)

InitChoice ==
    /\ inp \in [texts : UNION {[1 .. n -> ChoiceTexts] : n \in 0 .. MaxTexts},
                tail : ChoiceTails, form : 0 .. MaxTexts + 1]
    /\ m = <<>>
    /\ res = <<>>
    /\ phase = "start"

CallParseStringChoice ==
    /\ phase = "start"
    /\ res' = ParseStringChoice(ChoiceList(inp.texts) \o inp.tail, inp.form)
    /\ phase' = "parsed"
    /\ UNCHANGED <<m, inp>>

CallSkipStringChoice ==
    /\ phase = "start"
    /\ res' = [text |-> <<>>, rest |-> SkipStringChoice(ChoiceList(inp.texts) \o inp.tail)]
    /\ phase' = "skipped"
    /\ UNCHANGED <<m, inp>>

NextChoice == CallParseStringChoice \/ CallSkipStringChoice

SpecChoice == InitChoice /\ [][NextChoice]_vars

(* C21: on a list of N texts and a form f, ParseStringChoice leaves the   *)
(* consumer right behind the list, where SkipStringChoice leaves it, and  *)
(* appends text f as it stands when f < N and nothing when f >= N.        *)
C21_ChoiceConsumesList ==
    /\ phase = "parsed" =>
         /\ res.rest = inp.tail
         /\ res.rest = SkipStringChoice(ChoiceList(inp.texts) \o inp.tail)
         /\ res.text = (IF inp.form < Len(inp.texts) THEN inp.texts[inp.form + 1] ELSE <<>>)
    /\ phase = "skipped" => res.rest = inp.tail

(* The middle one of three texts, a control code in the texts around it *)
C21_Witness ==
    /\ phase = "parsed" /\ inp.form = 1
    /\ inp.texts = << <<SCC_COMMA>>, <<65, SCC_COMMA>>, <<SCC_COMMA, 65>> >>
    /\ inp.tail = <<66>>
    /\ res = [text |-> <<65, SCC_COMMA>>, rest |-> <<66>>]

----------------------------------------------------------------------------
(* Numbers: FormatNumber on an integer and a separator *)

NumberSeparators == {<<44>>, <<46>>, <<>>, <<32, 39>>}

Numbers == ((-MaxN) .. MaxN) \cup {1234567, -1234567, 999999, 1000000, -1000000, 2147483647}

InitNumber ==
    /\ inp \in [number : Numbers, separator : NumberSeparators]
    /\ m = <<>>
    /\ res = <<>>
    /\ phase = "start"

CallFormatNumber ==
    /\ phase = "start"
    /\ res' = FormatNumber(inp.number, inp.separator)
    /\ phase' = "number"
    /\ UNCHANGED <<m, inp>>

CallFormatCommaNumber ==
    /\ phase = "start"
    /\ res' = FormatCommaNumber(inp.number)
    /\ phase' = "comma"
    /\ UNCHANGED <<m, inp>>

NextNumber == CallFormatNumber \/ CallFormatCommaNumber

SpecNumber == InitNumber /\ [][NextNumber]_vars

(* The digits d in groups of three counted from the right, s between them *)
RECURSIVE Grouped(_, _)
Grouped(d, s) ==
    IF Len(d) <= 3 THEN d
    ELSE Grouped(SubSeq(d, 1, Len(d) - 3), s) \o s \o SubSeq(d, Len(d) - 2, Len(d))

SignedGrouped(n, s) == (IF n < 0 THEN <<45>> ELSE <<>>) \o Grouped(DecimalDigits(Abs(n)), s)

(* C10: FormatNumber writes '-' exactly for a negative number, then the   *)
(* decimal digits of its magnitude with the separator between the groups  *)
(* of three digits counted from the right; 1234567 with "," is 1,234,567. *)
C10_GroupedDigits ==
    /\ phase = "number" => res = SignedGrouped(inp.number, inp.separator)
    /\ phase = "comma" => res = SignedGrouped(inp.number, <<44>>)
    /\ (phase = "number" /\ inp.number = 1234567 /\ inp.separator = <<44>>) =>
         res = <<49, 44, 50, 51, 52, 44, 53, 54, 55>>
    /\ phase # "start" => ((res # <<>> /\ Head(res) = 45) <=> inp.number < 0)

(* -1234567 with a two-character separator *)
C10_Witness ==
    /\ phase = "number" /\ inp.number = -1234567 /\ inp.separator = <<32, 39>>
    /\ res = <<45, 49, 32, 39, 50, 51, 52, 32, 39, 53, 54, 55>>

(* {DECIMAL} round by round: the string "{DECIMAL}e{BLACK}" on a value   *)
(* of either sign and a number of digits                                  *)
MaxDecimalValue == 1100

MaxDecimalDigits == 3

InitDecimal ==
    /\ inp \in [string : {STR_DECIMAL},
                params : {<<NumParam(v), NumParam(d)>> :
                             v \in (-MaxDecimalValue) .. MaxDecimalValue, d \in 0 .. MaxDecimalDigits},
                asserts : {FALSE}]
    /\ m = StartGetStringWithArgs(inp.string, MakeSlots(inp.params), inp.asserts)
    /\ res = <<>>
    /\ phase = "first"

SpecDecimal == InitDecimal /\ [][Next]_vars

(* v with its last d digits behind the decimal separator *)
FixedPoint(v, d) ==
    LET whole == Abs(v) \div PowerOfTen(d)
        fraction == DecimalDigits(Abs(v) % PowerOfTen(d))
    IN (IF v < 0 THEN <<Minus>> ELSE <<>>) \o Grouped(DecimalDigits(whole), GroupSeparator)
       \o DecimalSeparator \o Zeros(d - Len(fraction)) \o fraction

(* C26: {DECIMAL} on the value v and d > 0 digits appends the grouped     *)
(* integer part of v / 10^d, with '-' when v < 0, the decimal separator   *)
(* and |v| mod 10^d as exactly d digits without a sign; with d = 0 it     *)
(* appends the grouped rendering of v.                                    *)
C26_DecimalRendering ==
    [][(Running(m) /\ NextCode(m) = SCC_DECIMAL) =>
          LET v == inp.params[1].n
              d == inp.params[2].n
          IN Top(m').out = Top(m).out \o
                 (IF d = 0 THEN SignedGrouped(v, GroupSeparator) ELSE FixedPoint(v, d))]_vars

----------------------------------------------------------------------------
(* The parameter store: reads under expected types, and cursor jumps *)

ExpectedTypes == {0, SCC_COMMA, SCC_NUM, SCC_STRING}

StoreValues == {NumParam(2), StrParam(<<97>>)}

InitParams ==
    /\ inp \in SeqsUpTo(StoreValues, MaxParams)
    /\ m = [sp |-> NewParameters(1, 0, Len(inp)), slots |-> MakeSlots(inp)]
    /\ res = [kind |-> "none", ok |-> TRUE, slot |-> Slot(EmptyParam), type |-> 0, before |-> m]
    /\ phase = 0

(* SetTypeOfNextParameter(type) followed by GetNextParameterReference() *)
ReadNext ==
    /\ phase < MaxReads
    /\ \E type \in ExpectedTypes :
         LET r == GetNextParameterReference(SetTypeOfNextParameter(m.sp, type), m.slots)
         IN /\ m' = [sp |-> r.sp, slots |-> r.slots]
            /\ res' = [kind |-> "read", ok |-> r.ok, slot |-> r.slot, type |-> type, before |-> m]
    /\ phase' = phase + 1
    /\ UNCHANGED inp

(* SetOffset(offset) *)
Jump ==
    /\ phase < MaxReads
    /\ \E offset \in 0 .. Len(inp) :
         /\ offset # m.sp.offset
         /\ m' = [m EXCEPT !.sp = SetOffset(@, offset)]
         /\ res' = [res EXCEPT !.kind = "jump", !.before = m]
    /\ phase' = phase + 1
    /\ UNCHANGED inp

NextParams == ReadNext \/ Jump

SpecParams == InitParams /\ [][NextParams]_vars

(* C6: a read with the cursor at or past the end fails and leaves cursor  *)
(* and claimed types alone; a read of a slot claimed under another type   *)
(* fails and leaves the claimed type alone; any other read returns the    *)
(* slot at the cursor, claims it under the expected type and moves the    *)
(* cursor by one; and a claimed type that is set never changes.           *)
C6_ReadNextParameter ==
    /\ [](res.kind = "read" =>
            LET b == res.before
                i == b.sp.offset + 1
            IN IF b.sp.offset >= b.sp.size
               THEN ~res.ok /\ m.sp.offset = b.sp.offset /\ m.slots = b.slots
               ELSE IF b.slots[i].type \notin {0, res.type}
               THEN ~res.ok /\ m.slots = b.slots
               ELSE /\ res.ok
                    /\ res.slot.data = b.slots[i].data
                    /\ m.slots = [b.slots EXCEPT ![i].type = res.type]
                    /\ m.sp.offset = b.sp.offset + 1)
    /\ [][\A i \in DOMAIN m.slots : m.slots[i].type # 0 => m'.slots[i].type = m.slots[i].type]_vars
    /\ [](SlotData(m.slots) = inp)

(* A slot claimed as {COMMA} is read again as {NUM}: the read fails *)
C6_Witness ==
    /\ res.kind = "read" /\ ~res.ok /\ res.type = SCC_NUM
    /\ res.before.sp.offset = 0 /\ Len(inp) = 2
    /\ m.slots[1].type = SCC_COMMA

----------------------------------------------------------------------------
(* Encoded strings: m is the EncodedString at hand.  It is built from a   *)
(* string id and parameters, or arrives as text from elsewhere; it is     *)
(* decoded to text, or one of its parameters is replaced and the result   *)
(* is decoded.                                                            *)

CodecStrings == {STR_JUST_RAW_STRING, STR_COMMA, STR_CASES, STR_STRING1}

(* Text values that start with a marker or a separator, and one that     *)
(* holds a whole text record with a marker behind a separator             *)
MarkedValues ==
    {StrParam(<<SCC_ENCODED_INTERNAL, 51>>), StrParam(<<SCC_RECORD_SEPARATOR, 97>>),
     StrParam(<<97, SCC_RECORD_SEPARATOR, SCC_ENCODED_STRING, SCC_ENCODED, 48>>)}

CodecValues ==
    {NumParam(42), StrParam(<<104, 105>>), StrParam(<<97, SCC_RECORD_SEPARATOR, 98>>), EmptyParam}
    \cup MarkedValues

ReplaceValues ==
    {NumParam(99), StrParam(<<98>>), StrParam(<<SCC_ENCODED, 48>>),
     StrParam(<<98, SCC_RECORD_SEPARATOR, SCC_ENCODED_STRING, SCC_ENCODED_INTERNAL, 49>>)}

(* Encoded strings with a record whose tag is none of the decoder's: in  *)
(* the middle, at the end, and the sub-string tag that ReplaceParam does  *)
(* not know                                                               *)
UnknownTagStrings ==
    { <<SCC_ENCODED_INTERNAL, 53, SCC_RECORD_SEPARATOR, SCC_ENCODED_NUMERIC, 56,
        SCC_RECORD_SEPARATOR, 120, 55, SCC_RECORD_SEPARATOR, SCC_ENCODED_NUMERIC, 57>>,
      <<SCC_ENCODED_INTERNAL, 51, SCC_RECORD_SEPARATOR, 120>>,
      <<SCC_ENCODED_INTERNAL, 51, SCC_RECORD_SEPARATOR, SCC_ENCODED, 48,
        SCC_RECORD_SEPARATOR, SCC_ENCODED_NUMERIC, 57>> }

RawStrings ==
    { <<>>,
      <<97, 98>>,
      <<SCC_ENCODED_INTERNAL>>,
      <<SCC_ENCODED_INTERNAL, 103>>,
      <<SCC_ENCODED_INTERNAL, 51, 120>>,
      <<SCC_ENCODED_INTERNAL, 51, SCC_RECORD_SEPARATOR, SCC_ENCODED_NUMERIC, 53, 103>>,
      <<SCC_ENCODED_INTERNAL, 51, SCC_RECORD_SEPARATOR, SCC_ENCODED_NUMERIC, 53>>,
      <<SCC_ENCODED_INTERNAL, 102, 102>>,
      <<SCC_ENCODED, 49, 48, 48, 48, 48>>,
      <<SCC_ENCODED, 48, SCC_RECORD_SEPARATOR, SCC_ENCODED, 49, 48, 48, 48, 48>>,
      <<SCC_ENCODED_INTERNAL, 50, SCC_RECORD_SEPARATOR, SCC_ENCODED_STRING, SCC_ENCODED_INTERNAL, 51,
        SCC_RECORD_SEPARATOR, SCC_ENCODED_NUMERIC, 53>> }
    \cup UnknownTagStrings

BuiltInputs ==
    [kind : {"built"}, id : CodecStrings, params : SeqsUpTo(CodecValues, MaxParams),
     param : 0 .. MaxParams, data : ReplaceValues, raw : {<<>>}, asserts : BOOLEAN]

RawInputs ==
    [kind : {"raw"}, id : {STR_NULL}, params : {<<>>}, param : 0 .. 1, data : ReplaceValues,
     raw : RawStrings, asserts : BOOLEAN]

NoResult == [text |-> <<>>, err |-> "none", orig |-> <<>>, abort |-> FALSE]

InitCodec ==
    /\ inp \in BuiltInputs \cup RawInputs
    /\ m = <<>>
    /\ res = NoResult
    /\ phase = "start"

(* GetEncodedStringWithArgs(id, params) *)
Encode ==
    /\ phase = "start" /\ inp.kind = "built"
    /\ IF inp.asserts /\ ~EncodeAccepts(inp.params)
       THEN m' = <<>> /\ phase' = "rejected" /\ res' = [res EXCEPT !.abort = TRUE]
       ELSE /\ m' = GetEncodedStringWithArgs(inp.id, inp.params)
            /\ phase' = "encoded"
            /\ UNCHANGED res
    /\ UNCHANGED inp

(* An EncodedString with text that was not built here *)
Receive ==
    /\ phase = "start" /\ inp.kind = "raw"
    /\ m' = inp.raw
    /\ phase' = "raw"
    /\ UNCHANGED <<inp, res>>

(* EncodedString::GetDecodedString() *)
Decode ==
    /\ phase \in {"encoded", "raw", "replaced"}
    /\ LET r == GetDecodedString(m, inp.asserts)
       IN res' = [res EXCEPT !.text = r.ret, !.err = r.err]
    /\ phase' = CASE phase = "encoded" -> "decoded"
                  [] phase = "raw" -> "rawdecoded"
                  [] OTHER -> "redecoded"
    /\ UNCHANGED <<m, inp>>

(* EncodedString::ReplaceParam(param, data) *)
Replace ==
    /\ phase \in {"encoded", "raw"}
    /\ LET r == ReplaceParam(m, inp.param, inp.data, inp.asserts)
       IN /\ m' = r.string
          /\ res' = [res EXCEPT !.orig = m, !.abort = r.abort]
          /\ phase' = IF r.abort THEN "aborted" ELSE "replaced"
    /\ UNCHANGED inp

NextCodec == Encode \/ Receive \/ Decode \/ Replace

SpecCodec == InitCodec /\ [][NextCodec]_vars

----------------------------------------------------------------------------
(* Properties of encoded strings *)

WithParam(params, i, v) == [params EXCEPT ![i + 1] = v]

(* C1: the text decoded from GetEncodedStringWithArgs(id, params) is the  *)
(* text GetStringWithArgs(id, params) gives, for numeric, text and empty  *)
(* parameters in any order and for templates with case-switch records.    *)
C1_RoundTrip ==
    phase = "decoded" =>
        LET direct == GetStringWithArgs(inp.id, MakeSlots(inp.params), inp.asserts)
        IN res.text = direct.ret /\ res.err = direct.err

(* The parameters EncodedString::ReplaceParam reads off an encoded string *)
ReplaceParsed(string, asserts) ==
    ReplaceParamRecords(Drop(ReadIntegerBase16(Tail(string)).rest, 1), <<>>, asserts)

(* The parameters DecodeEncodedString reads off an encoded string *)
DecodeParsed(string, asserts) ==
    DecodeRecords(ReadIntegerBase16(Tail(string)).rest, <<>>, asserts)

(* C23: off every string GetEncodedStringWithArgs(id, params) builds,     *)
(* ReplaceParam and DecodeEncodedString read the parameter list params:   *)
(* as many parameters, each of the kind and the value it was given, a     *)
(* single empty slot and an empty slot at the end included.               *)
C23_ParsersAgree ==
    phase = "encoded" =>
        /\ ReplaceParsed(m, inp.asserts) = ParseResult(FALSE, inp.params)
        /\ DecodeParsed(m, inp.asserts) = DecodeResult("ok", inp.params, <<>>)

(* Decoding step by step: GetDecodedString on received and on built       *)
(* encoded strings, FormatString taking one round at a time               *)
RejectedStrings ==
    { <<SCC_ENCODED, 48, SCC_RECORD_SEPARATOR, SCC_ENCODED, 49, 48, 48, 48, 48,
        SCC_RECORD_SEPARATOR, SCC_ENCODED_NUMERIC, 53>>,
      <<SCC_ENCODED, 48, SCC_RECORD_SEPARATOR, SCC_ENCODED_NUMERIC, 55,
        SCC_RECORD_SEPARATOR, SCC_ENCODED, 49, 48, 48, 48, 48, SCC_RECORD_SEPARATOR,
        SCC_ENCODED_STRING, 97, 98>>,
      <<SCC_ENCODED, 49, 48, 48, 48, 48, SCC_RECORD_SEPARATOR, SCC_ENCODED_NUMERIC, 53>>,
      <<SCC_ENCODED_INTERNAL, 51, 120, SCC_RECORD_SEPARATOR, SCC_ENCODED_NUMERIC, 53>> }

DecodeStrings ==
    RawStrings \cup RejectedStrings
    \cup {GetEncodedStringWithArgs(id, params) :
             id \in {STR_COMMA, STR_NOUN}, params \in SeqsUpTo({NumParam(42), EmptyParam}, MaxParams)}

InitDecode ==
    /\ inp \in [string : {STR_JUST_RAW_STRING},
                params : {<<StrParam(e)>> : e \in DecodeStrings}, asserts : BOOLEAN]
    /\ m = StartGetStringWithArgs(inp.string, MakeSlots(inp.params), inp.asserts)
    /\ res = <<>>
    /\ phase = "first"

SpecDecode == InitDecode /\ [][Next]_vars

(* The markers that start an encoded string *)
EncodedMarkers == {SCC_ENCODED, SCC_ENCODED_INTERNAL}

(* C24: whichever way DecodeEncodedString ends, with the string rendered  *)
(* or with one of its three diagnostics, the consumer it was given has no *)
(* bytes left: the frame the marker was read from is exhausted.           *)
C24_DecoderEmptiesConsumer ==
    [][(Running(m) /\ NextCode(m) \in EncodedMarkers /\ m'.err = "none") =>
          /\ Len(m'.calls) >= Len(m.calls)
          /\ m'.calls[Len(m.calls)].stack =
                [LiveStack(m) EXCEPT ![Len(LiveStack(m))].s = <<>>]]_vars

(* C2: replacing parameter i < |params| of a built encoded string by v    *)
(* gives the encoded string of the same id with params[i := v], as many   *)
(* parameters as before, and its decoding is the template of id rendered  *)
(* with params[i := v].                                                   *)
C2_ReplaceKeepsOthers ==
    (inp.kind = "built" /\ inp.param < Len(inp.params)) =>
        LET params == WithParam(inp.params, inp.param, inp.data)
        IN /\ phase # "aborted"
           /\ phase \in {"replaced", "redecoded"} => m = GetEncodedStringWithArgs(inp.id, params)
           /\ phase = "redecoded" =>
                res.text = GetStringWithArgs(inp.id, MakeSlots(params), inp.asserts).ret

(* The text after the string id of an encoded string *)
AfterId(s) == Drop(Tail(s), HexPrefixLen(Tail(s)))

(* A record that starts with the numeric tag and holds a byte that is not *)
(* a hexadecimal digit                                                    *)
BadNumericRecord(s) ==
    \E k \in DOMAIN s : \E j \in (k + 1) .. Len(s) :
        /\ s[k] = SCC_ENCODED_NUMERIC /\ (k = 1 \/ s[k - 1] = SCC_RECORD_SEPARATOR)
        /\ \A l \in (k + 1) .. j : s[l] # SCC_RECORD_SEPARATOR
        /\ ~IsHexDigit(s[j])

(* The encoded string cannot be decoded, as ReplaceParam's contract lists *)
Undecodable(s) ==
    \/ s = <<>>
    \/ Head(s) # SCC_ENCODED_INTERNAL
    \/ HexPrefixLen(Tail(s)) = 0
    \/ AfterId(s) # <<>> /\ Head(AfterId(s)) # SCC_RECORD_SEPARATOR
    \/ BadNumericRecord(Drop(AfterId(s), 1))

(* The number of parameters of the encoded string at the start *)
OriginalCount ==
    IF inp.kind = "built" THEN Len(inp.params)
    ELSE Cardinality({k \in DOMAIN inp.raw : inp.raw[k] = SCC_RECORD_SEPARATOR})

(* C3: ReplaceParam returns the empty encoded string when the original    *)
(* cannot be decoded or the index is not below its number of parameters,  *)
(* it leaves the original as it was, and it fails in no other way: no     *)
(* abort, and a non-empty result in every other case.                     *)
C3_ReplaceFailsEmpty ==
    phase \in {"replaced", "aborted"} =>
        LET bad == Undecodable(res.orig) \/ inp.param >= OriginalCount
        IN /\ ~res.abort
           /\ res.orig = (IF inp.kind = "built"
                          THEN GetEncodedStringWithArgs(inp.id, inp.params) ELSE inp.raw)
           /\ bad <=> (m = <<>>)

(* The records of an encoded string: the pieces between its separators *)
RECURSIVE SplitRecords(_)
SplitRecords(s) ==
    IF \A k \in DOMAIN s : s[k] # SCC_RECORD_SEPARATOR THEN <<s>>
    ELSE LET k == CHOOSE j \in DOMAIN s :
                      s[j] = SCC_RECORD_SEPARATOR /\ \A l \in 1 .. (j - 1) : s[l] # SCC_RECORD_SEPARATOR
         IN <<SubSeq(s, 1, k - 1)>> \o SplitRecords(SubSeq(s, k + 1, Len(s)))

Markers == {SCC_ENCODED, SCC_ENCODED_INTERNAL}

(* A text record whose payload starts with an encoded-string marker *)
MarkedTextRecord(record) ==
    Len(record) >= 2 /\ record[1] = SCC_ENCODED_STRING /\ record[2] \in Markers

MarkedRecords(s) == {i \in DOMAIN SplitRecords(s) : MarkedTextRecord(SplitRecords(s)[i])}

(* A text value that puts such a record into the encoded string: it      *)
(* starts with a marker, or holds a separator, the text tag and a marker  *)
CarriesMarker(d) ==
    /\ d.k = "str"
    /\ \E j \in DOMAIN d.s :
          /\ d.s[j] \in Markers
          /\ j = 1 \/ (j >= 3 /\ d.s[j - 1] = SCC_ENCODED_STRING /\ d.s[j - 2] = SCC_RECORD_SEPARATOR)

(* A text value that the assertion of the encoder is about *)
StartsMarked(d) ==
    d.k = "str" /\ d.s # <<>> /\ d.s[1] \in Markers \cup {SCC_RECORD_SEPARATOR}

Malformed(s) ==
    IF s = <<>> THEN "empty"
    ELSE IF Head(s) \notin {SCC_ENCODED, SCC_ENCODED_INTERNAL} THEN "marker"
    ELSE LET digits == Take(Tail(s), HexPrefixLen(Tail(s)))
             after == AfterId(s)
             sub == Drop(after, 1)
         IN IF after # <<>> /\ Head(after) # SCC_RECORD_SEPARATOR THEN "separator"
            ELSE IF digits = <<>> THEN "id"
            ELSE IF Head(s) = SCC_ENCODED /\ HexNumber(digits, 0) >= TAB_SIZE_GAMESCRIPT THEN "range"
            ELSE IF /\ sub # <<>> /\ Head(sub) = SCC_ENCODED
                    /\ HexNumber(Take(Tail(sub), HexPrefixLen(Tail(sub))), 0) >= TAB_SIZE_GAMESCRIPT
                 THEN "sub-range"
            ELSE "none"

ParamRecords(s) == Tail(SplitRecords(s))

(* The type tags the record loops have a case for *)
DecodeTags == {SCC_ENCODED, SCC_ENCODED_NUMERIC, SCC_ENCODED_STRING}

ReplaceTags == {SCC_ENCODED_NUMERIC, SCC_ENCODED_STRING}

UnknownRecords(s, tags) ==
    {i \in DOMAIN ParamRecords(s) : ParamRecords(s)[i] # <<>> /\ ParamRecords(s)[i][1] \notin tags}

(* The parameter a record stands for, an unknown record standing for the  *)
(* empty parameter                                                        *)
RecordParam(record, tags) ==
    IF record = <<>> \/ record[1] \notin tags THEN EmptyParam
    ELSE IF record[1] = SCC_ENCODED_STRING THEN StrParam(Tail(record))
    ELSE LET value == HexNumber(Take(Tail(record), HexPrefixLen(Tail(record))), 0)
         IN IF record[1] = SCC_ENCODED_NUMERIC THEN NumParam(value)
            ELSE NumParam(MakeStringID(TEXT_TAB_GAMESCRIPT_START, value))

ExpectedParams(s, tags) == [i \in DOMAIN ParamRecords(s) |-> RecordParam(ParamRecords(s)[i], tags)]

(* The string id written in an encoded string *)
EncodedId(s) == HexNumber(Take(Tail(s), HexPrefixLen(Tail(s))), 0)

(* A received string that is well formed but for records with a tag the   *)
(* record loop has no case for                                            *)
HasUnknownRecord(tags) ==
    /\ inp.kind = "raw" /\ inp.raw # <<>> /\ Head(inp.raw) = SCC_ENCODED_INTERNAL
    /\ Malformed(inp.raw) = "none" /\ ~BadNumericRecord(Drop(AfterId(inp.raw), 1))
    /\ UnknownRecords(inp.raw, tags) # {}

(* C16: a record with a type tag the decoder does not know becomes the    *)
(* empty parameter at its position, in DecodeEncodedString and in         *)
(* ReplaceParam alike: every record gives one parameter, the other        *)
(* parameters keep their positions and values, the records behind it are  *)
(* decoded, and there is no error and no abort.  The text decoded is that *)
(* of the same string with the empty parameter in that place, and         *)
(* ReplaceParam returns the encoding of the parameters with the new value *)
(* in its place, the unknown records written as empty records.           *)
C16_UnknownTagIsEmpty ==
    /\ (phase = "rawdecoded" /\ HasUnknownRecord(DecodeTags)) =>
          LET expected == ExpectedParams(inp.raw, DecodeTags)
          IN /\ DecodeRecords(AfterId(inp.raw), <<>>, inp.asserts) = DecodeResult("ok", expected, <<>>)
             /\ \A i \in UnknownRecords(inp.raw, DecodeTags) : expected[i] = EmptyParam
             /\ res.err = "none"
             /\ res.text = GetDecodedString(GetEncodedStringWithArgs(EncodedId(inp.raw), expected),
                                            inp.asserts).ret
    /\ (phase \in {"replaced", "aborted"} /\ HasUnknownRecord(ReplaceTags)
        /\ ~(inp.asserts /\ StartsMarked(inp.data))) =>
          LET expected == ExpectedParams(inp.raw, ReplaceTags)
          IN /\ ~res.abort
             /\ ReplaceParamRecords(Drop(AfterId(inp.raw), 1), <<>>, inp.asserts)
                    = ParseResult(FALSE, expected)
             /\ inp.param < Len(expected) =>
                    /\ m = GetEncodedStringWithArgs(EncodedId(inp.raw), WithParam(expected, inp.param, inp.data))
                    /\ \A i \in UnknownRecords(inp.raw, ReplaceTags) :
                          (i > inp.param + 1 => ParamRecords(m)[i + Len(ParamRecords(m)) - Len(expected)] = <<>>)
                          /\ (i < inp.param + 1 => ParamRecords(m)[i] = <<>>)

(* A string with an unknown record between two numbers was decoded: the   *)
(* number behind the unknown record is printed in its own place           *)
C16_Witness ==
    /\ phase = "rawdecoded"
    /\ inp.raw = <<SCC_ENCODED_INTERNAL, 53, SCC_RECORD_SEPARATOR, SCC_ENCODED_NUMERIC, 56,
                   SCC_RECORD_SEPARATOR, 120, 55, SCC_RECORD_SEPARATOR, SCC_ENCODED_NUMERIC, 57>>
    /\ res.err = "none"
    /\ res.text = <<89>> \o InvalidParameterText \o <<58, 57>>

----------------------------------------------------------------------------
(* FormatBytes.  An int64_t number of bytes is held as its base-1024      *)
(* digits, lowest first and without a zero at the top, so that the whole  *)
(* range 0 .. 2^63-1 is there: 2^63 = 8 * 1024^6.                         *)

NBSP == 160

IecPrefixes == << <<>>, <<75, 105>>, <<77, 105>>, <<71, 105>>, <<84, 105>>, <<80, 105>>, <<69, 105>> >>

(* number >= 1024 * 1024 *)
WideAtLeast2p20(number) == Len(number) > 2

(* number /= 1024 *)
WideDiv1024(number) == Tail(number)

(* The value of a number below 1024 * 1024 *)
WideLow(number) ==
    (IF Len(number) >= 1 THEN number[1] ELSE 0) + 1024 * (IF Len(number) >= 2 THEN number[2] ELSE 0)

(* A loop that divides without counting the divisions *)
RECURSIVE FormatBytesLoop_NoCount(_, _)
FormatBytesLoop_NoCount(number, id) ==
    IF WideAtLeast2p20(number) THEN FormatBytesLoop_NoCount(WideDiv1024(number), id)
    ELSE [number |-> WideLow(number), id |-> id]

(* while (number >= 1024 * 1024) { number /= 1024; id++; } (lines 535-538) *)
RECURSIVE FormatBytesLoop(_, _)
FormatBytesLoop(number, id) ==
    IF WideAtLeast2p20(number) THEN FormatBytesLoop(WideDiv1024(number), id + 1)
    ELSE [number |-> WideLow(number), id |-> id]

(* FormatBytes(builder, number) for number >= 0: the text written, and    *)
(* whether an assert() of the function fails                              *)
FormatBytes(number) ==
    LET l == FormatBytesLoop(number, 1)
        n == l.number
        id == IF n < 1024 THEN 0 ELSE l.id
        digits ==
            IF n < 1024 THEN DecimalDigits(n)
            ELSE IF n < 1024 * 10
            THEN DecimalDigits(n \div 1024) \o DecimalSeparator
                 \o FormatZerofillNumber(((n % 1024) * 100) \div 1024, 2)
            ELSE IF n < 1024 * 100
            THEN DecimalDigits(n \div 1024) \o DecimalSeparator
                 \o FormatZerofillNumber(((n % 1024) * 10) \div 1024, 1)
            ELSE DecimalDigits(n \div 1024)
        failed == (n >= 1024 * 100 /\ ~(n < 1024 * 1024)) \/ ~(id < Len(IecPrefixes))
    IN [text |-> IF failed THEN digits ELSE digits \o <<NBSP>> \o IecPrefixes[id + 1] \o <<66>>,
        failed |-> failed]

MaxBytes == 1100

(* The values the loop can end with, and the digits it divides away *)
BytesTops == (0 .. MaxBytes) \cup {2048, 8191, 10239, 10240, 102399, 102400, 1048575}

BytesInputs ==
    {i \in [top : BytesTops, k : 0 .. 5, fill : {0, 1023}] :
        /\ i.k > 0 => i.top > 0
        /\ i.k = 5 => i.top < 8192}

RECURSIVE Fill(_, _)
Fill(k, limb) == IF k = 0 THEN <<>> ELSE <<limb>> \o Fill(k - 1, limb)

(* The number top * 1024^k + (fill, k times) *)
WideNumber(i) ==
    Fill(i.k, i.fill) \o (IF i.top = 0 THEN <<>>
                          ELSE IF i.top < 1024 THEN <<i.top>>
                          ELSE <<i.top % 1024, i.top \div 1024>>)

InitBytes ==
    /\ inp \in BytesInputs
    /\ m = WideNumber(inp)
    /\ res = <<>>
    /\ phase = "start"

CallFormatBytes ==
    /\ phase = "start"
    /\ res' = FormatBytes(m)
    /\ phase' = "bytes"
    /\ UNCHANGED <<m, inp>>

NextBytes == CallFormatBytes

SpecBytes == InitBytes /\ [][NextBytes]_vars

(* The number of divisions by 1024 that bring a number below 1024 * 1024 *)
BytesDivisions(number) == IF Len(number) > 2 THEN Len(number) - 2 ELSE 0

(* What is left of the number after those divisions *)
BytesScaled(number) == WideLow(SubSeq(number, BytesDivisions(number) + 1, Len(number)))

(* scaled / 1024 cut off after the given number of decimals *)
BytesMantissa(scaled, decimals) ==
    LET t == (scaled * PowerOfTen(decimals)) \div 1024
        whole == DecimalDigits(t \div PowerOfTen(decimals))
    IN IF decimals = 0 THEN whole
       ELSE whole \o DecimalSeparator \o FormatZerofillNumber(t % PowerOfTen(decimals), decimals)

BinaryPrefixes == << <<75, 105>>, <<77, 105>>, <<71, 105>>, <<84, 105>>, <<80, 105>>, <<69, 105>> >>

(* C11: for every byte count in 0 .. 2^63-1 no assertion of FormatBytes   *)
(* fails; a count below 1024 is written as a bare integer with the empty  *)
(* prefix; any other count is divided by 1024 k times until it is below   *)
(* 1024 * 1024, and is written as that value / 1024 with two decimals     *)
(* below 10 * 1024, one decimal below 100 * 1024 and none otherwise,      *)
(* followed by the prefix number k + 1 of Ki, Mi, Gi, Ti, Pi, Ei.         *)
C11_BytesScaling ==
    phase = "bytes" =>
        LET k == BytesDivisions(m)
            scaled == BytesScaled(m)
        IN /\ ~res.failed
           /\ scaled < 1024 * 1024
           /\ k + 1 <= Len(BinaryPrefixes)
           /\ Len(m) <= 1 => res.text = DecimalDigits(scaled) \o <<NBSP, 66>>
           /\ Len(m) > 1 =>
                 res.text = BytesMantissa(scaled, IF scaled < 10 * 1024 THEN 2
                                                  ELSE IF scaled < 100 * 1024 THEN 1 ELSE 0)
                            \o <<NBSP>> \o BinaryPrefixes[k + 1] \o <<66>>

(* 2^63 - 1 has been written, as 7 EiB *)
C11_Witness ==
    /\ phase = "bytes"
    /\ m = <<1023, 1023, 1023, 1023, 1023, 1023, 7>>
    /\ res.text = <<55, 46, 57, 57, NBSP, 69, 105, 66>>

----------------------------------------------------------------------------
(* GetStringWithArgs called with a string id of any kind, by a game       *)
(* script and by other callers.                                           *)

(* Ids that are defined, the id 0, the first id past the strings of tab 0, *)
(* an id in a tab without strings, the tabs that are no longer used, and   *)
(* ids of the game script.                                                 *)
StringIds ==
    {STR_NULL, STR_UNDEFINED, STR_COMMA, STR_NOUN, STR_STRING1, Len(LangStrings),
     Len(LangStrings) + 1, MakeStringID(1, 0), MakeStringID(TEXT_TAB_OLD_CUSTOM, 0),
     MakeStringID(TEXT_TAB_OLD_NEWGRF, 0), MakeStringID(TEXT_TAB_GAMESCRIPT_START, 0),
     MakeStringID(TEXT_TAB_GAMESCRIPT_START, 1), MakeStringID(TEXT_TAB_GAMESCRIPT_START, 2)}

StringIdInputs ==
    [string : StringIds, params : SeqsUpTo(ParamValues, 1), game_script : BOOLEAN,
     asserts : BOOLEAN]

InitStringId ==
    /\ inp \in StringIdInputs
    /\ m = [vecs |-> <<MakeSlots(inp.params)>>,
            sps |-> <<NewParameters(1, 0, Len(inp.params))>>, calls |-> <<>>,
            scan |-> FALSE, ret |-> <<>>, err |-> "none", asserts |-> inp.asserts]
    /\ res = <<>>
    /\ phase = "start"

(* GetStringWithArgs(builder, string, args, 0, game_script) *)
CallGetStringWithArgs ==
    /\ phase = "start"
    /\ m' = Run(EnterGetStringWithArgs(m, inp.string, 1, 0, inp.game_script, "root", NoCont))
    /\ phase' = "called"
    /\ UNCHANGED <<inp, res>>

NextStringId == CallGetStringWithArgs

SpecStringId == InitStringId /\ [][NextStringId]_vars

(* The id is in a tab of the language file and at or past the number of   *)
(* strings loaded for that tab                                            *)
PastLoaded(string) ==
    /\ string # 0
    /\ GetStringTab(string) \notin {TEXT_TAB_OLD_CUSTOM, TEXT_TAB_OLD_NEWGRF,
                                    TEXT_TAB_GAMESCRIPT_START, TEXT_TAB_NEWGRF_START}
    /\ GetStringIndex(string) >= LangTabNum(GetStringTab(string))

----------------------------------------------------------------------------
(* The reinforcement-learning link: RLAction (src/src/rl/action.cpp), its *)
(* handler, RLCommunication and RLInterface.  A datagram is a sequence of *)
(* bytes; an action is a category, a type and a vector of uint32_t.       *)

(* sizeof(category) + sizeof(type) + sizeof(uint32_t) *)
HeaderSize == 6

(* sizeof(uint32_t) *)
WordSize == 4

(* A uint32_t as memcpy finds it in memory, least significant byte first *)
Bytes32(v) == <<v % 256, (v \div 256) % 256, (v \div 65536) % 256, v \div 16777216>>

Value32(b) == b[1] + 256 * b[2] + 65536 * b[3] + 16777216 * b[4]

(* The two bytes b as a number *)
Value16(b) == b[1] + 256 * b[2]

RLAction(category, type, params) == [category |-> category, type |-> type, params |-> params]

RECURSIVE ParamBytes(_)
ParamBytes(params) ==
    IF params = <<>> THEN <<>> ELSE Bytes32(Head(params)) \o ParamBytes(Tail(params))

(* A serialisation that does not write how many parameters follow *)
ToBytes_NoCount(a) == <<a.category, a.type>> \o Bytes32(0) \o ParamBytes(a.params)

(* RLAction::toBytes() *)
ToBytes(a) == <<a.category, a.type>> \o Bytes32(Len(a.params)) \o ParamBytes(a.params)

(* RLAction::GetSerializedSize() *)
GetSerializedSize(a) == HeaderSize + Len(a.params) * WordSize

(* The outcome of fromBytes: ok = FALSE is a thrown exception; read is    *)
(* the number of bytes of data the call has looked at                     *)
FromBytesResult(ok, action, read) == [ok |-> ok, action |-> action, read |-> read]

(* RLAction::fromBytes(data, size) where size_t has bits bits.  The count *)
(* is kept in two halves of 16 bits, hi and lo; expected_size is          *)
(* offset + param_count * sizeof(uint32_t) in size_t, and size is below   *)
(* 2^16.  params.resize(param_count) throws std::length_error for a count *)
(* beyond max_size(): a check that is passed with hi > 0 is passed by     *)
(* wrapping around, with 32 bits and a count of 2^30 - 1 or more.         *)
FromBytes(data, size, bits) ==
    IF size < HeaderSize THEN FromBytesResult(FALSE, RLAction(0, 0, <<>>), 0)
    ELSE LET category == data[1]
             type == data[2]
             lo == Value16(SubSeq(data, 3, 4))
             hi == Value16(SubSeq(data, 5, 6))
             sum == HeaderSize + lo * WordSize
             high == hi * WordSize + sum \div 65536
             expected_lo == sum % 65536
             expected_hi == IF bits = 32 THEN high % 65536 ELSE high
         IN IF expected_hi > 0 \/ size < expected_lo
            THEN FromBytesResult(FALSE, RLAction(category, type, <<>>), HeaderSize)
            ELSE IF hi > 0
            THEN FromBytesResult(FALSE, RLAction(category, type, <<>>), HeaderSize)
            ELSE FromBytesResult(TRUE,
                     RLAction(category, type,
                              [i \in 1 .. lo |->
                                  Value32(SubSeq(data, HeaderSize + WordSize * (i - 1) + 1,
                                                 HeaderSize + WordSize * i))]),
                     HeaderSize + lo * WordSize)

----------------------------------------------------------------------------
(* Actions and their bytes: toBytes on an action, fromBytes on the bytes  *)
(* or on a datagram that was not built here                               *)

MaxActionParams == 2

ParamWords == {0, 1, 258, 2147483647}

RLActions ==
    [category : (0 .. 4) \cup {255}, type : {0, 1, 3, 255},
     params : SeqsUpTo(ParamWords, MaxActionParams)]

(* Datagrams that declare more parameters than they carry: one, 2^30 - 1  *)
(* (its size in bytes plus the header wraps around 32 bits), 2^30 and     *)
(* 2^32 - 1                                                               *)
ShortDatagrams ==
    { <<1, 1, 1, 0, 0, 0>>,
      <<1, 1, 2, 0, 0, 0, 7, 0, 0, 0>>,
      <<1, 1, 255, 255, 255, 63, 7, 0, 0, 0>>,
      <<1, 1, 0, 0, 0, 64, 7, 0, 0, 0>>,
      <<2, 1, 255, 255, 255, 255, 7, 0, 0, 0, 8, 0, 0, 0>> }

SizeBits == {32, 64}

ActionInputs ==
    {i \in [kind : {"built"}, action : RLActions, raw : {<<>>},
            size : 0 .. (HeaderSize + MaxActionParams * WordSize), bits : SizeBits] :
        i.size <= HeaderSize + Len(i.action.params) * WordSize}
    \cup {i \in [kind : {"raw"}, action : {RLAction(0, 0, <<>>)}, raw : ShortDatagrams,
                 size : 0 .. 14, bits : SizeBits] : i.size <= Len(i.raw)}

InitAction ==
    /\ inp \in ActionInputs
    /\ m = <<>>
    /\ res = FromBytesResult(FALSE, RLAction(0, 0, <<>>), 0)
    /\ phase = "start"

CallToBytes ==
    /\ phase = "start" /\ inp.kind = "built"
    /\ m' = ToBytes(inp.action)
    /\ phase' = "bytes"
    /\ UNCHANGED <<inp, res>>

(* A buffer filled by someone else *)
TakeDatagram ==
    /\ phase = "start" /\ inp.kind = "raw"
    /\ m' = inp.raw
    /\ phase' = "bytes"
    /\ UNCHANGED <<inp, res>>

CallFromBytes ==
    /\ phase = "bytes"
    /\ res' = FromBytes(m, inp.size, inp.bits)
    /\ phase' = "parsed"
    /\ UNCHANGED <<m, inp>>

NextAction == CallToBytes \/ TakeDatagram \/ CallFromBytes

SpecAction == InitAction /\ [][NextAction]_vars

(* C28: toBytes gives GetSerializedSize() = 6 + 4 * |params| bytes, and   *)
(* fromBytes on all of them gives the category, the type and the          *)
(* parameters back; fromBytes on fewer than 6 bytes, or on fewer than     *)
(* 6 + 4 * param_count, throws; and no call looks at a byte at or behind  *)
(* the size it was given.                                                 *)
C28_ActionRoundTrip ==
    /\ (phase # "start" /\ inp.kind = "built") =>
          /\ Len(m) = GetSerializedSize(inp.action)
          /\ Len(m) = 6 + 4 * Len(inp.action.params)
    /\ (phase = "parsed" /\ inp.kind = "built") =>
          IF inp.size = Len(m) THEN res.ok /\ res.action = inp.action ELSE ~res.ok
    /\ (phase = "parsed" /\ inp.kind = "raw") => ~res.ok
    /\ phase = "parsed" => res.read <= inp.size

(* Two parameters, the second with every bit but the highest set *)
C28_Witness ==
    /\ phase = "parsed" /\ inp.kind = "built" /\ inp.size = 14
    /\ inp.action = RLAction(3, 255, <<258, 2147483647>>)
    /\ m = <<3, 255, 2, 0, 0, 0, 2, 1, 0, 0, 255, 255, 255, 127>>
    /\ res = FromBytesResult(TRUE, inp.action, 14)

----------------------------------------------------------------------------
(* RLCommunication (src/src/rl/communication.cpp), the build for POSIX.   *)
(* The object holds sock and connected; open is the set of descriptors    *)
(* the process holds open, which the operating system keeps.              *)

MaxFds == 6

(* sock = -1 *)
NoSocket == -1

(* RLCommunication::RLCommunication() *)
NewCommunication == [sock |-> NoSocket, connected |-> FALSE, open |-> {}]

(* socket(): the lowest descriptor that is not open *)
NewFd(open) == CHOOSE fd \in (1 .. MaxFds) \ open : \A g \in (1 .. MaxFds) \ open : fd <= g

(* The call of Connect that fails first, "ok" when none does; socket()    *)
(* fails for certain when no descriptor is left.                          *)
ConnectOutcomes(c) ==
    IF Cardinality(c.open) >= MaxFds THEN {"socket"}
    ELSE {"socket", "getfl", "setfl", "aton", "bind", "ok"}

(* close(fd) *)
CloseFd(open, fd) == open \ {fd}

(* RLCommunication::Connect(host, remote_port, local_port) *)
Connect(c, outcome) ==
    IF outcome = "socket" THEN [c EXCEPT !.sock = NoSocket]
    ELSE LET fd == NewFd(c.open)
             made == [c EXCEPT !.sock = fd, !.open = @ \cup {fd}]
         IN CASE outcome \in {"getfl", "setfl", "aton"} -> made
              [] outcome = "bind" -> [made EXCEPT !.open = CloseFd(@, fd), !.sock = NoSocket]
              [] OTHER -> [made EXCEPT !.connected = TRUE]

(* The outcome of Send and Receive: used = the socket call was made *)
Transfer(c, ret, used, data) == [c |-> c, ret |-> ret, used |-> used, data |-> data]

(* RLCommunication::Send(data): sendto sends all bytes or fails *)
Send(c, all) == IF ~c.connected THEN Transfer(c, FALSE, FALSE, <<>>) ELSE Transfer(c, all, TRUE, <<>>)

(* RLCommunication::Receive(data, max_size): recvfrom gives a datagram or *)
(* fails, as it does on the non-blocking socket when nothing has arrived  *)
CommReceive(c, got, datagram) ==
    IF ~c.connected THEN Transfer(c, FALSE, FALSE, <<>>)
    ELSE IF ~got THEN Transfer(c, FALSE, TRUE, <<>>)
    ELSE Transfer(c, TRUE, TRUE, datagram)

(* RLCommunication::Close() *)
Close(c) ==
    IF ~c.connected THEN c
    ELSE [c EXCEPT !.open = CloseFd(@, c.sock), !.sock = NoSocket, !.connected = FALSE]

----------------------------------------------------------------------------
(* Any sequence of calls on one RLCommunication *)

InitComm ==
    /\ m = NewCommunication
    /\ inp = <<>>
    /\ res = [op |-> "new", ret |-> FALSE, used |-> FALSE]
    /\ phase = "comm"

CallConnect ==
    /\ phase = "comm"
    /\ \E outcome \in ConnectOutcomes(m) :
          /\ m' = Connect(m, outcome)
          /\ res' = [op |-> "Connect", ret |-> outcome = "ok", used |-> outcome # "socket"]
    /\ UNCHANGED <<inp, phase>>

CallSend ==
    /\ phase = "comm"
    /\ \E all \in BOOLEAN :
          /\ m' = Send(m, all).c
          /\ res' = [op |-> "Send", ret |-> Send(m, all).ret, used |-> Send(m, all).used]
    /\ UNCHANGED <<inp, phase>>

CallReceive ==
    /\ phase = "comm"
    /\ \E got \in BOOLEAN :
          /\ m' = CommReceive(m, got, <<>>).c
          /\ res' = [op |-> "Receive", ret |-> CommReceive(m, got, <<>>).ret,
                     used |-> CommReceive(m, got, <<>>).used]
    /\ UNCHANGED <<inp, phase>>

CallClose ==
    /\ phase = "comm"
    /\ m' = Close(m)
    /\ res' = [op |-> "Close", ret |-> TRUE, used |-> m.connected]
    /\ UNCHANGED <<inp, phase>>

NextComm == CallConnect \/ CallSend \/ CallReceive \/ CallClose

SpecComm == InitComm /\ [][NextComm]_vars

(* C29: after any calls connected holds exactly when a descriptor is held *)
(* open, and then it is sock; a Connect that fails leaves no descriptor   *)
(* it made and connected false; Close without a connection changes        *)
(* nothing, with one it closes sock and ends the connection; Send and     *)
(* Receive without a connection return false and make no socket call.     *)
C29_ConnectedIffSocketOpen ==
    /\ [](m.connected <=> m.open # {})
    /\ [](m.connected => m.open = {m.sock})
    /\ [][(res'.op = "Connect" /\ ~res'.ret) => (m'.open = m.open /\ ~m'.connected)]_vars
    /\ [][(res'.op = "Close" /\ ~m.connected) => m' = m]_vars
    /\ [][(res'.op = "Close" /\ m.connected) =>
             (m'.open = m.open \ {m.sock} /\ ~m'.connected /\ m'.sock = NoSocket)]_vars
    /\ [][(res'.op \in {"Send", "Receive"} /\ ~m.connected) =>
             (~res'.ret /\ ~res'.used /\ m' = m)]_vars

----------------------------------------------------------------------------
(* RLActionHandler (rl/action_handler.cpp) and RLInterface                *)
(* (src/src/rl/interface.cpp)                                             *)

(* enum class RLActionCategory *)
CategoryNone == 0
BuildInfrastructure == 1
BuildStations == 2
ManageVehicles == 3
ManageOrders == 4

(* enum class BuildInfrastructureAction *)
BuildRoad == 1
BuildRoadLine == 2
BuildRoadDepot == 3

(* enum class BuildStationsAction *)
BuildCargoStation == 1
BuildBusStation == 2

(* What the handler cannot decide: success is the result of the game      *)
(* command; past_end is what a read of action.params at or behind         *)
(* size() does, which is undefined: the program ends ("crash") or the     *)
(* read gives the word that lies there ("value")                          *)
Oracles == [success : BOOLEAN, past_end : {"crash", "value"}, word : {0, 7}]

(* The outcome of a handler: ret is its result, cmds the game commands it *)
(* called, reads the indices at which it read action.params               *)
Handled(ret, cmds, reads, crashed) ==
    [ret |-> ret, cmds |-> cmds, reads |-> reads, crashed |-> crashed]

(* action.params[i] *)
ParamAt(action, i, oracle) ==
    IF i < Len(action.params) THEN action.params[i + 1] ELSE oracle.word

(* One case of a handler: params[0] .. params[k - 1] are read in turn,    *)
(* those at the indices in flags are compared with 0, and the game        *)
(* command name is called with them                                       *)
ReadAndCall(name, action, k, flags, oracle) ==
    IF k > Len(action.params) /\ oracle.past_end = "crash"
    THEN Handled(FALSE, <<>>, 0 .. Len(action.params), TRUE)
    ELSE Handled(oracle.success,
                 <<[name |-> name,
                    args |-> [i \in 1 .. k |->
                                 IF (i - 1) \in flags
                                 THEN (IF ParamAt(action, i - 1, oracle) # 0 THEN 1 ELSE 0)
                                 ELSE ParamAt(action, i - 1, oracle)]]>>,
                 0 .. (k - 1), FALSE)

(* RLActionHandler::HandleNoneAction *)
HandleNoneAction(action) == Handled(FALSE, <<>>, {}, FALSE)

(* RLActionHandler::HandleBuildInfrastructure *)
HandleBuildInfrastructure(action, oracle) ==
    CASE action.type = BuildRoad -> ReadAndCall("BuildRoadAtTile", action, 3, {}, oracle)
      [] action.type = BuildRoadLine -> ReadAndCall("BuildRoadLine", action, 5, {}, oracle)
      [] action.type = BuildRoadDepot -> ReadAndCall("BuildRoadDepot", action, 3, {}, oracle)
      [] OTHER -> HandleNoneAction(action)

(* RLActionHandler::HandleBuildStations *)
HandleBuildStations(action, oracle) ==
    CASE action.type = BuildCargoStation ->
             ReadAndCall("BuildCargoStationAtTile", action, 4, {2}, oracle)
      [] action.type = BuildBusStation ->
             ReadAndCall("BuildBusStationAtTile", action, 4, {2}, oracle)
      [] OTHER -> HandleNoneAction(action)

(* RLActionHandler::HandleAction *)
HandleAction(action, oracle) ==
    CASE action.category = BuildInfrastructure -> HandleBuildInfrastructure(action, oracle)
      [] action.category = BuildStations -> HandleBuildStations(action, oracle)
      [] action.category = ManageVehicles -> Handled(FALSE, <<>>, {}, FALSE)
      [] action.category = ManageOrders -> Handled(FALSE, <<>>, {}, FALSE)
      [] OTHER -> HandleNoneAction(action)

(* The interface: enabled and rl_comm are its fields; the other fields    *)
(* tell what the last call of ReceiveAction did: the datagram it got, the *)
(* action it parsed, whether HandleAction was called and with what        *)
(* outcome, and the messages it sent                                      *)
Interface(enabled, comm) ==
    [enabled |-> enabled, comm |-> comm, got |-> FALSE, data |-> <<>>, parsed |-> FALSE,
     action |-> RLAction(0, 0, <<>>), handled |-> FALSE,
     outcome |-> Handled(FALSE, <<>>, {}, FALSE), sent |-> <<>>]

(* RLInterface::RLInterface(host, remote_port, local_port) *)
NewInterface(outcome) ==
    Interface(Connect(NewCommunication, outcome).connected, Connect(NewCommunication, outcome))

(* RLInterface::~RLInterface() *)
DeleteInterface(s) == [s EXCEPT !.comm = Close(@), !.enabled = FALSE]

(* RLInterface::ExecuteAction(action) *)
ExecuteAction(s, action, oracle) ==
    IF ~s.enabled THEN s
    ELSE IF action.category = CategoryNone THEN s
    ELSE LET h == HandleAction(action, oracle)
             success == h.ret
             result_msg == <<IF success THEN 1 ELSE 0>>
         IN IF h.crashed
            THEN [s EXCEPT !.handled = TRUE, !.outcome = h]
            ELSE [s EXCEPT !.handled = TRUE, !.outcome = h,
                           !.sent = IF Send(s.comm, TRUE).used
                                    THEN Append(@, result_msg) ELSE @]

(* RLInterface::ReceiveAction(): got and datagram are what recvfrom finds *)
ReceiveAction(s, got, datagram, bits, oracle) ==
    IF ~s.enabled THEN s
    ELSE LET fresh == Interface(s.enabled, s.comm)
             r == CommReceive(s.comm, got, datagram)
         IN IF ~r.ret THEN fresh
            ELSE IF Len(r.data) < HeaderSize
            THEN [fresh EXCEPT !.got = TRUE, !.data = r.data]
            ELSE LET f == FromBytes(r.data, Len(r.data), bits)
                 IN IF ~f.ok
                    THEN [fresh EXCEPT !.got = TRUE, !.data = r.data]
                    ELSE ExecuteAction([fresh EXCEPT !.got = TRUE, !.data = r.data,
                                                     !.parsed = TRUE, !.action = f.action],
                                       f.action, oracle)

----------------------------------------------------------------------------
(* One interface, from its construction to its destruction, polled for    *)
(* datagrams in between                                                   *)

MaxHandlerParams == 5

(* Parameters of an action on the wire: a tile, a flag or direction, and  *)
(* more                                                                   *)
WireParams ==
    {[i \in 1 .. n |-> IF i = 3 THEN p ELSE i + 4] : p \in {0, 3}, n \in 0 .. MaxHandlerParams}

WireActions == [category : 0 .. 5, type : 0 .. 4, params : WireParams]

Datagrams ==
    {ToBytes(a) : a \in WireActions} \cup ShortDatagrams \cup {<<>>, <<1, 1, 0>>}

InitInterface ==
    /\ \E outcome \in ConnectOutcomes(NewCommunication) : m = NewInterface(outcome)
    /\ inp \in [bits : SizeBits]
    /\ res = "constructed"
    /\ phase = "up"

CallReceiveAction ==
    /\ phase = "up" /\ ~m.outcome.crashed
    /\ \E got \in BOOLEAN, datagram \in Datagrams, oracle \in Oracles :
          m' = ReceiveAction(m, got, datagram, inp.bits, oracle)
    /\ res' = "polled"
    /\ UNCHANGED <<inp, phase>>

CallDeleteInterface ==
    /\ phase = "up" /\ ~m.outcome.crashed
    /\ m' = DeleteInterface(m)
    /\ res' = "deleted"
    /\ phase' = "down"
    /\ UNCHANGED inp

NextInterface == CallReceiveAction \/ CallDeleteInterface

SpecInterface == InitInterface /\ [][NextInterface]_vars

(* The number of parameters the case of the handler for this action uses *)
ParamsNeeded(action) ==
    CASE action.category = BuildInfrastructure /\ action.type \in {BuildRoad, BuildRoadDepot} -> 3
      [] action.category = BuildInfrastructure /\ action.type = BuildRoadLine -> 5
      [] action.category = BuildStations /\ action.type \in {BuildCargoStation, BuildBusStation} -> 4
      [] OTHER -> 0

(* C27: for every action that fromBytes accepts, HandleAction reads       *)
(* action.params only at indices below params.size(); an action with      *)
(* fewer parameters than its handler needs is rejected: HandleAction      *)
(* returns false and calls no game command.                               *)
C27_NoReadPastParams ==
    (phase = "up" /\ m.handled) =>
        /\ \A i \in m.outcome.reads : i < Len(m.action.params)
        /\ Len(m.action.params) < ParamsNeeded(m.action) =>
              (~m.outcome.crashed /\ ~m.outcome.ret /\ m.outcome.cmds = <<>>)

(* The datagram holds a header and the parameters its header declares *)
Carries(data) ==
    /\ Len(data) >= HeaderSize
    /\ Value16(SubSeq(data, 5, 6)) = 0
    /\ Len(data) >= HeaderSize + WordSize * Value16(SubSeq(data, 3, 4))

(* C30: a call of ReceiveAction sends at most one message; it sends       *)
(* exactly one, 1 for success and 0 for failure, after a datagram that    *)
(* parses as an action of a category other than None; it sends none and   *)
(* executes no game command when the interface is disabled, when nothing  *)
(* was received, when the datagram is shorter than 6 bytes or than its    *)
(* declared parameters need, or when the category is None.                *)
C30_OneResultPerDatagram ==
    [][res' = "polled" =>
          /\ Len(m'.sent) <= 1
          /\ IF m.enabled /\ m'.got /\ Carries(m'.data) /\ m'.data[1] # CategoryNone
             THEN /\ Len(m'.sent) = 1
                  /\ m'.sent[1] = <<IF m'.outcome.ret THEN 1 ELSE 0>>
             ELSE /\ m'.sent = <<>>
                  /\ m'.outcome.cmds = <<>>]_vars

====
